---- MODULE Spec2Model ----
(***************************************************************************)
(* Forex analyzer: the upload flow (parse, validate, store), the column    *)
(* standardisation of the format normalizer, the pip computation and the   *)
(* performance metrics, modelled from the Python sources.                  *)
(*                                                                         *)
(* Units.  Prices are integers in units of 0.0001, trade sizes in units of *)
(* 0.01 lot, profits in whole account-currency units, times in days.       *)
(* Strings that the code inspects character by character (symbols, column  *)
(* headers, trade types) are sequences of one-character strings.           *)
(***************************************************************************)
EXTENDS Integers, Sequences, FiniteSets, TLC

VARIABLES
    upc,        \* upload_trading_data / validate_trading_data: position
    data,       \* parsed_data handed to the validator
    errors,     \* validate_trading_data: errors list
    warnings,   \* validate_trading_data: warnings list
    result,     \* the dictionary validate_trading_data returns
    raised,     \* exception that left the validator or the handler
    storage,    \* blobs written under the upload path
    response,   \* HTTP status of the upload response
    npc,        \* _standardize_columns: position
    nheaders,   \* column headers of the frame read from the file
    ncols,      \* column headers of the renamed frame
    nsource,    \* declared source
    nerror,     \* missing columns named by the ValueError
    nout,       \* trades/metadata produced by process_file
    rpc,        \* DataProcessor instance: constructed or not
    rself,      \* the attributes of the DataProcessor instance
    rlog,       \* the calls of process_file so far: file and outcome
    ppc,        \* pip computation: position
    ptrade,     \* the trade whose pips are computed
    ppips,      \* pips of _calculate_additional_fields and of Trade.calculate_pips
    apc,        \* performance computation: position
    aprofits,   \* profits of the data set, in data-set order
    ametrics,   \* metrics reported by the engine, the summary and the drawdown analysis
    qpc,        \* risk assessment plugin: position
    qprofits,   \* profit column handed to the plugin
    qresult,    \* the results dictionary of Plugin.analyze
    qrng,       \* NumPy's global random state
    spc,        \* session assignment: the computations that have returned
    shours,     \* open hour of every trade of the data set
    ssessions,  \* session column of the engine's and of the ML pipeline's frame
    ipc,        \* generate_comprehensive_insights: position
    igenerated, \* insights in the order of generation
    ireturned,  \* the list generate_comprehensive_insights returns
    gpc,        \* generate_comprehensive_insights: the rule group to run next
    gtrades,    \* number of trades of the data set
    ginsights,  \* insights appended so far
    graised,    \* exception that left the generator
    gresponse,  \* HTTP status of generate_insights
    mpc,        \* shared analysis instances: constructed or not
    mtrades,    \* number of trades of the data set analysed
    mwinners,   \* number of its trades with profit > 0
    mcalls,     \* number of invocations so far
    mself,      \* MLPipeline: encoders, scalers and models
    mfiles,     \* model files under the model path, with the invocation that wrote them
    mlast,      \* the last invocation and what it did
    xpc,        \* process_file and the validator's consistency stage: position
    xframe,     \* the cleaned frame: open and close time of each row
    xdata,      \* the data set process_file returns
    xerrors,    \* _validate_consistency: errors
    xraised,    \* _validate_consistency: exception
    evpc,       \* EventManager: constructed or not
    esubs,      \* _subscriptions of the event type
    etasks,     \* the emit call of each task
    eexec,      \* calls of each handler: started and completed
    estats,     \* _stats and the length of the history
    eonce,      \* handlers subscribed with once=True
    emany,      \* handlers subscribed with once=False
    ecalls,     \* emit calls so far
    lpc,        \* PluginManager: constructed or not
    lmodules,   \* sys.modules['plugin']: the directory whose plugin.py it is
    lplugins,   \* self.plugins
    levents,    \* events emitted on the event bus
    lreturned,  \* the calls and what they returned
    lcalls      \* load and unload calls so far

vars == <<upc, data, errors, warnings, result, raised, storage, response, npc,
          nheaders, ncols, nsource, nerror, nout, rpc, rself, rlog, ppc,
          ptrade, ppips, apc, aprofits, ametrics, qpc, qprofits, qresult,
          qrng, spc, shours, ssessions, ipc, igenerated, ireturned, gpc,
          gtrades, ginsights, graised, gresponse, mpc, mtrades, mwinners,
          mcalls, mself, mfiles, mlast, xpc, xframe, xdata, xerrors, xraised,
          evpc, esubs, etasks, eexec, estats, eonce, emany, ecalls, lpc,
          lmodules, lplugins, levents, lreturned, lcalls>>

uploadVars == <<upc, data, errors, warnings, result, raised, storage,
                response>>
normVars == <<npc, nheaders, ncols, nsource, nerror, nout>>
repeatVars == <<rpc, rself, rlog>>
pipVars == <<ppc, ptrade, ppips>>
perfVars == <<apc, aprofits, ametrics>>
pluginVars == <<qpc, qprofits, qresult, qrng>>
sessionVars == <<spc, shours, ssessions>>
insightVars == <<ipc, igenerated, ireturned>>
generateVars == <<gpc, gtrades, ginsights, graised, gresponse>>
mlVars == <<mpc, mtrades, mwinners, mcalls, mself, mfiles, mlast>>
extractVars == <<xpc, xframe, xdata, xerrors, xraised>>
eventVars == <<evpc, esubs, etasks, eexec, estats, eonce, emany, ecalls>>
loaderVars == <<lpc, lmodules, lplugins, levents, lreturned, lcalls>>

\* the variables an action of one component leaves alone
exceptUpload == <<normVars, repeatVars, pipVars, perfVars, pluginVars,
                  sessionVars, insightVars, generateVars, mlVars, extractVars,
                  eventVars, loaderVars>>
exceptNorm == <<uploadVars, repeatVars, pipVars, perfVars, pluginVars,
                sessionVars, insightVars, generateVars, mlVars, extractVars,
                eventVars, loaderVars>>
exceptRepeat == <<uploadVars, normVars, pipVars, perfVars, pluginVars,
                  sessionVars, insightVars, generateVars, mlVars, extractVars,
                  eventVars, loaderVars>>
exceptPips == <<uploadVars, normVars, repeatVars, perfVars, pluginVars,
                sessionVars, insightVars, generateVars, mlVars, extractVars,
                eventVars, loaderVars>>
exceptPerf == <<uploadVars, normVars, repeatVars, pipVars, pluginVars,
                sessionVars, insightVars, generateVars, mlVars, extractVars,
                eventVars, loaderVars>>
exceptPlugin == <<uploadVars, normVars, repeatVars, pipVars, perfVars,
                  sessionVars, insightVars, generateVars, mlVars, extractVars,
                  eventVars, loaderVars>>
exceptSession == <<uploadVars, normVars, repeatVars, pipVars, perfVars,
                   pluginVars, insightVars, generateVars, mlVars, extractVars,
                   eventVars, loaderVars>>
exceptInsight == <<uploadVars, normVars, repeatVars, pipVars, perfVars,
                   pluginVars, sessionVars, generateVars, mlVars, extractVars,
                   eventVars, loaderVars>>
exceptGenerate == <<uploadVars, normVars, repeatVars, pipVars, perfVars,
                    pluginVars, sessionVars, insightVars, mlVars, extractVars,
                    eventVars, loaderVars>>
exceptML == <<uploadVars, normVars, repeatVars, pipVars, perfVars, pluginVars,
              sessionVars, insightVars, generateVars, extractVars, eventVars,
              loaderVars>>
exceptExtract == <<uploadVars, normVars, repeatVars, pipVars, perfVars,
                   pluginVars, sessionVars, insightVars, generateVars, mlVars,
                   eventVars, loaderVars>>
exceptEvent == <<uploadVars, normVars, repeatVars, pipVars, perfVars,
                 pluginVars, sessionVars, insightVars, generateVars, mlVars,
                 extractVars, loaderVars>>
exceptLoader == <<uploadVars, normVars, repeatVars, pipVars, perfVars,
                  pluginVars, sessionVars, insightVars, generateVars, mlVars,
                  extractVars, eventVars>>

-----------------------------------------------------------------------------
(* Strings as character sequences                                          *)

LowerLetters == <<"a","b","c","d","e","f","g","h","i","j","k","l","m",
                  "n","o","p","q","r","s","t","u","v","w","x","y","z">>

UpperLetters == <<"A","B","C","D","E","F","G","H","I","J","K","L","M",
                  "N","O","P","Q","R","S","T","U","V","W","X","Y","Z">>

Digits == <<"0","1","2","3","4","5","6","7","8","9">>

Range(f) == {f[i] : i \in DOMAIN f}

IndexOf(seq, c) == CHOOSE i \in DOMAIN seq : seq[i] = c

UpperChar(c) == IF c \in Range(LowerLetters) THEN UpperLetters[IndexOf(LowerLetters, c)] ELSE c

LowerChar(c) == IF c \in Range(UpperLetters) THEN LowerLetters[IndexOf(UpperLetters, c)] ELSE c

Upper(s) == [i \in DOMAIN s |-> UpperChar(s[i])]

Lower(s) == [i \in DOMAIN s |-> LowerChar(s[i])]

\* Python's `needle in hay` on strings
Contains(hay, needle) ==
    \E i \in 1..(Len(hay) - Len(needle) + 1) : SubSeq(hay, i, i + Len(needle) - 1) = needle

\* Python's str.replace(ch, '') for a single character
RemoveChar(s, ch) == SelectSeq(s, LAMBDA c : c # ch)

\* Python's str.isalpha on ASCII text
IsAlpha(s) == Len(s) > 0 /\ \A i \in DOMAIN s : s[i] \in Range(LowerLetters) \cup Range(UpperLetters)

RECURSIVE NatToChars(_)
NatToChars(n) == IF n < 10 THEN <<Digits[n + 1]>> ELSE Append(NatToChars(n \div 10), Digits[(n % 10) + 1])

\* Python's str(n) for an integer
IntToChars(n) == IF n < 0 THEN <<"-">> \o NatToChars(0 - n) ELSE NatToChars(n)

Abs(x) == IF x < 0 THEN 0 - x ELSE x

Max2(a, b) == IF a >= b THEN a ELSE b

-----------------------------------------------------------------------------
(* Field values of the parsed data: a key may be absent, hold None, a      *)
(* number, a string in ISO date format (n is the instant) or another string*)

Absent == [k |-> "absent", n |-> 0, s |-> <<>>]
Null == [k |-> "null", n |-> 0, s |-> <<>>]
Num(x) == [k |-> "num", n |-> x, s |-> <<>>]
Str(c) == [k |-> "str", n |-> 0, s |-> c]
Iso(t) == [k |-> "iso", n |-> t, s |-> <<>>]

\* `field in trade`
Has(v) == v.k # "absent"

\* `field in trade and trade[field] is not None`
HasValue(v) == v.k \notin {"absent", "null"}

\* isinstance(v, (int, float))
IsNumeric(v) == v.k = "num"

\* Python truth value of a present field
Truthy(v) == \/ v.k = "iso"
             \/ v.k = "num" /\ v.n # 0
             \/ v.k = "str" /\ v.s # <<>>

Msg(stage, i, code, field) == [stage |-> stage, trade |-> i, code |-> code, field |-> field]

NoExc == "none"

-----------------------------------------------------------------------------
(* DataValidator                                                           *)

MinTradeSize == 1
MaxTradeSize == 100000
MinPrice == 1
MaxPrice == 1000000000
Now == 5

BuyStr == <<"b","u","y">>
SellStr == <<"s","e","l","l">>
JPY == <<"J","P","Y">>

ValidTradeTypes == {BuyStr, SellStr}

RequiredFields == <<"ticket", "open_time", "type", "size", "symbol", "open_price", "profit">>

PriceFields == <<"open_price", "close_price", "stop_loss", "take_profit">>

RECURSIVE Flatten(_)
Flatten(ss) == IF ss = <<>> THEN <<>> ELSE Head(ss) \o Flatten(Tail(ss))

\* lines 88-90
RequiredFieldErrors(i, t) ==
    LET missing == SelectSeq(RequiredFields, LAMBDA f : ~HasValue(t[f]))
    IN [j \in 1..Len(missing) |-> Msg("trade", i, "missing_required_field", missing[j])]

\* lines 93-94
TradeTypeErrors(i, t) ==
    IF Has(t["type"]) /\ ~(t["type"].k = "str" /\ t["type"].s \in ValidTradeTypes)
    THEN <<Msg("trade", i, "invalid_trade_type", "type")>>
    ELSE <<>>

\* lines 97-101
SizeErrors(i, t) ==
    IF ~HasValue(t["size"]) THEN <<>>
    ELSE IF ~IsNumeric(t["size"]) THEN <<Msg("trade", i, "not_numeric", "size")>>
    ELSE IF t["size"].n < MinTradeSize THEN <<Msg("trade", i, "size_too_small", "size")>>
    ELSE <<>>

\* lines 97-103
SizeWarnings(i, t) ==
    IF HasValue(t["size"]) /\ IsNumeric(t["size"])
       /\ ~(t["size"].n < MinTradeSize) /\ t["size"].n > MaxTradeSize
    THEN <<Msg("trade", i, "very_large_size", "size")>>
    ELSE <<>>

\* lines 107-112
PriceErrors(i, t) ==
    Flatten([j \in 1..Len(PriceFields) |->
        LET f == PriceFields[j] IN
        IF ~HasValue(t[f]) THEN <<>>
        ELSE IF ~IsNumeric(t[f]) THEN <<Msg("trade", i, "not_numeric", f)>>
        ELSE IF t[f].n < MinPrice THEN <<Msg("trade", i, "price_too_low", f)>>
        ELSE <<>>])

\* lines 107-114
PriceWarnings(i, t) ==
    Flatten([j \in 1..Len(PriceFields) |->
        LET f == PriceFields[j] IN
        IF HasValue(t[f]) /\ IsNumeric(t[f]) /\ ~(t[f].n < MinPrice) /\ t[f].n > MaxPrice
        THEN <<Msg("trade", i, "very_high_price", f)>>
        ELSE <<>>])

\* x.replace('Z', '+00:00') followed by datetime.fromisoformat:
\* a non-string has no replace (AttributeError), other text does not parse
ParseOutcome(v) ==
    IF v.k = "iso" THEN "ok"
    ELSE IF v.k = "str" THEN "ValueError"
    ELSE "AttributeError"

\* lines 117-123: only ValueError and TypeError are caught
OpenTimeErrors(i, t) ==
    IF Has(t["open_time"]) /\ Truthy(t["open_time"]) /\ ParseOutcome(t["open_time"]) = "ValueError"
    THEN <<Msg("trade", i, "invalid_open_time", "open_time")>>
    ELSE <<>>

OpenTimeWarnings(i, t) ==
    IF Has(t["open_time"]) /\ Truthy(t["open_time"]) /\ ParseOutcome(t["open_time"]) = "ok"
       /\ t["open_time"].n > Now
    THEN <<Msg("trade", i, "open_time_in_future", "open_time")>>
    ELSE <<>>

OpenTimeExc(t) ==
    IF Has(t["open_time"]) /\ Truthy(t["open_time"]) /\ ParseOutcome(t["open_time"]) = "AttributeError"
    THEN "AttributeError"
    ELSE NoExc

\* lines 125-133
CloseTimeErrors(i, t) ==
    IF ~(Has(t["close_time"]) /\ Truthy(t["close_time"])) THEN <<>>
    ELSE IF ParseOutcome(t["close_time"]) = "ValueError"
         THEN <<Msg("trade", i, "invalid_close_time", "close_time")>>
    ELSE IF ParseOutcome(t["close_time"]) # "ok" THEN <<>>
    ELSE IF ~(Has(t["open_time"]) /\ Truthy(t["open_time"])) THEN <<>>
    ELSE IF ParseOutcome(t["open_time"]) = "ValueError"
         THEN <<Msg("trade", i, "invalid_close_time", "close_time")>>
    ELSE IF ParseOutcome(t["open_time"]) = "ok" /\ t["close_time"].n < t["open_time"].n
         THEN <<Msg("trade", i, "close_before_open", "close_time")>>
    ELSE <<>>

CloseTimeExc(t) ==
    IF ~(Has(t["close_time"]) /\ Truthy(t["close_time"])) THEN NoExc
    ELSE IF ParseOutcome(t["close_time"]) = "AttributeError" THEN "AttributeError"
    ELSE IF ParseOutcome(t["close_time"]) = "ok" /\ Has(t["open_time"]) /\ Truthy(t["open_time"])
            /\ ParseOutcome(t["open_time"]) = "AttributeError"
         THEN "AttributeError"
    ELSE NoExc

\* line 136
ProfitCheckApplies(t) ==
    \A f \in {"open_price", "close_price", "size", "type"} : HasValue(t[f])

\* _calculate_expected_profit, lines 236-266, in exact arithmetic:
\* pips * pip_value = (close - open) * 100000 * size / close for JPY and
\* non-JPY symbols alike; with the units above that is
\* ExpectedProfitNumerator / close_price.
ExpectedProfitNumerator(t) ==
    IF t["type"].s = BuyStr
    THEN (t["close_price"].n - t["open_price"].n) * 1000 * t["size"].n
    ELSE (t["open_price"].n - t["close_price"].n) * 1000 * t["size"].n

\* the exception _calculate_expected_profit leaves with, in statement order:
\* `'JPY' in symbol` (246), `0.0001 / close_price` (253-255), `* size`,
\* `close_price - open_price` (259-261)
ExpectedProfitExc(t) ==
    IF Has(t["symbol"]) /\ t["symbol"].k # "str" THEN "TypeError"
    ELSE IF ~IsNumeric(t["close_price"]) THEN "TypeError"
    ELSE IF t["close_price"].n = 0 THEN "ZeroDivisionError"
    ELSE IF ~IsNumeric(t["size"]) THEN "TypeError"
    ELSE IF ~IsNumeric(t["open_price"]) THEN "TypeError"
    ELSE NoExc

\* lines 136-143: trade.get('profit', 0) is None when the key holds None
ProfitExc(t) ==
    IF ~ProfitCheckApplies(t) THEN NoExc
    ELSE IF ExpectedProfitExc(t) # NoExc THEN ExpectedProfitExc(t)
    ELSE IF Has(t["profit"]) /\ ~IsNumeric(t["profit"]) THEN "TypeError"
    ELSE NoExc

\* |actual - calc| > max(|calc| * 0.1, 1.0) with calc = N / close: times |close|,
\* |actual * close - N| > max(|N|, 10 * |close|) / 10, which for an integer
\* left side is the comparison with the integer part of the right side
ProfitWarnings(i, t) ==
    IF ProfitCheckApplies(t) /\ ProfitExc(t) = NoExc
    THEN LET c == t["close_price"].n
             N == ExpectedProfitNumerator(t)
             actual == IF Has(t["profit"]) THEN t["profit"].n ELSE 0
         IN IF Abs(actual * c - N) > Max2(Abs(N), 10 * Abs(c)) \div 10
            THEN <<Msg("trade", i, "profit_inconsistency", "profit")>>
            ELSE <<>>
    ELSE <<>>

\* str(trade['symbol']).upper(), line 147
SymbolText(v) ==
    IF v.k = "str" THEN Upper(v.s) ELSE IF v.k = "num" THEN IntToChars(v.n) ELSE <<>>

\* lines 146-151
SymbolWarnings(i, t) ==
    IF Has(t["symbol"]) /\ Truthy(t["symbol"])
    THEN LET symbol == SymbolText(t["symbol"]) IN
         (IF Len(symbol) < 6 \/ Len(symbol) > 8
          THEN <<Msg("trade", i, "unusual_symbol_format", "symbol")>> ELSE <<>>)
         \o
         (IF ~IsAlpha(RemoveChar(RemoveChar(symbol, "/"), "."))
          THEN <<Msg("trade", i, "symbol_non_alphabetic", "symbol")>> ELSE <<>>)
    ELSE <<>>

\* the exception one iteration of the loop of _validate_trades leaves with
TradeExc(t) ==
    IF OpenTimeExc(t) # NoExc THEN OpenTimeExc(t)
    ELSE IF CloseTimeExc(t) # NoExc THEN CloseTimeExc(t)
    ELSE ProfitExc(t)

\* one iteration of the loop, lines 84-151
TradeErrors(i, t) ==
    RequiredFieldErrors(i, t) \o TradeTypeErrors(i, t) \o SizeErrors(i, t)
        \o PriceErrors(i, t) \o OpenTimeErrors(i, t) \o CloseTimeErrors(i, t)

TradeWarnings(i, t) ==
    SizeWarnings(i, t) \o PriceWarnings(i, t) \o OpenTimeWarnings(i, t)
        \o ProfitWarnings(i, t) \o SymbolWarnings(i, t)

\* _validate_trades, lines 77-153
ValidateTradesExc(trades) ==
    IF \E i \in DOMAIN trades : TradeExc(trades[i]) # NoExc
    THEN TradeExc(trades[CHOOSE i \in DOMAIN trades :
                            /\ TradeExc(trades[i]) # NoExc
                            /\ \A j \in 1..(i - 1) : TradeExc(trades[j]) = NoExc])
    ELSE NoExc

ValidateTradesErrors(trades) == Flatten([i \in DOMAIN trades |-> TradeErrors(i, trades[i])])

ValidateTradesWarnings(trades) == Flatten([i \in DOMAIN trades |-> TradeWarnings(i, trades[i])])

\* _validate_structure, lines 58-75.  data.tk: "absent", "list", "sized" (a
\* non-list with a length, such as a string) or "unsized" (None, a number)
ValidateStructure(d) ==
    (IF d.tk = "absent" THEN <<Msg("structure", 0, "missing_trades", "trades")>>
     ELSE IF d.tk # "list" THEN <<Msg("structure", 0, "trades_not_list", "trades")>>
     ELSE IF Len(d.trades) = 0 THEN <<Msg("structure", 0, "no_trades", "trades")>>
     ELSE <<>>)
    \o
    (IF d.mk = "absent" THEN <<Msg("structure", 0, "missing_metadata", "metadata")>>
     ELSE IF d.mk # "dict" THEN <<Msg("structure", 0, "metadata_not_dict", "metadata")>>
     ELSE <<>>)

MetadataRequiredFields == <<"source", "total_trades", "date_range">>

\* `field in metadata`; date_range is a record of its own
HasMeta(m, f) == IF f = "date_range" THEN m.date_range.k # "absent" ELSE Has(m[f])

\* lines 166-180
DateRangeErrors(m) ==
    LET dr == m.date_range IN
    IF dr.k = "absent" THEN <<>>
    ELSE IF dr.k # "dict" THEN <<Msg("metadata", 0, "date_range_not_dict", "date_range")>>
    ELSE IF ~Has(dr.start) \/ ~Has(dr.end)
         THEN <<Msg("metadata", 0, "date_range_missing_start_end", "date_range")>>
    ELSE IF ParseOutcome(dr.start) # "ok" \/ ParseOutcome(dr.end) # "ok"
         THEN <<Msg("metadata", 0, "invalid_date_format", "date_range")>>
    ELSE IF dr.start.n > dr.end.n
         THEN <<Msg("metadata", 0, "start_after_end", "date_range")>>
    ELSE <<>>

\* lines 183-191
NumericFieldErrors(m) ==
    (IF ~HasValue(m.total_trades) THEN <<>>
     ELSE IF ~IsNumeric(m.total_trades)
          THEN <<Msg("metadata", 0, "not_numeric", "total_trades")>>
     ELSE IF m.total_trades.n < 0
          THEN <<Msg("metadata", 0, "total_trades_negative", "total_trades")>>
     ELSE <<>>)
    \o
    (IF ~HasValue(m.leverage) THEN <<>>
     ELSE IF ~IsNumeric(m.leverage)
          THEN <<Msg("metadata", 0, "not_numeric", "leverage")>>
     ELSE IF m.leverage.n <= 0
          THEN <<Msg("metadata", 0, "leverage_not_positive", "leverage")>>
     ELSE <<>>)

\* _validate_metadata, lines 155-193
ValidateMetadata(m) ==
    LET missing == SelectSeq(MetadataRequiredFields, LAMBDA f : ~HasMeta(m, f))
    IN [j \in 1..Len(missing) |-> Msg("metadata", 0, "missing_metadata_field", missing[j])]
       \o DateRangeErrors(m) \o NumericFieldErrors(m)

\* lines 203-205: metadata['total_trades'] != len(trades)
TradeCountMismatchMutant(v, n) == v.k = "num" /\ v.n < n

TradeCountMismatch(v, n) == ~(v.k = "num" /\ v.n = n)

TradeCountErrors(d) ==
    IF Has(d.metadata.total_trades) /\ TradeCountMismatch(d.metadata.total_trades, Len(d.trades))
    THEN <<Msg("consistency", 0, "total_trades_mismatch", "total_trades")>>
    ELSE <<>>

\* lines 211-215: the open and close times the loop parses
TimeValues(trades) ==
    Flatten([i \in DOMAIN trades |->
        (IF Has(trades[i]["open_time"]) /\ Truthy(trades[i]["open_time"])
         THEN <<trades[i]["open_time"]>> ELSE <<>>)
        \o
        (IF Has(trades[i]["close_time"]) /\ Truthy(trades[i]["close_time"])
         THEN <<trades[i]["close_time"]>> ELSE <<>>)])

MinOf(S) == CHOOSE x \in S : \A y \in S : x <= y

MaxOf(S) == CHOOSE x \in S : \A y \in S : x >= y

\* lines 208-232: "raise" is the KeyError of metadata['date_range']['start'],
\* which the except clause (ValueError, TypeError, AttributeError) lets through
DateRangeConsistency(d) ==
    LET dr == d.metadata.date_range
        tv == TimeValues(d.trades)
        dates == {tv[i].n : i \in DOMAIN tv}
        caught == [exc |-> NoExc, errs |-> <<Msg("consistency", 0, "date_range_check_failed", "date_range")>>]
        keyError == [exc |-> "KeyError", errs |-> <<>>]
    IN
    IF Len(d.trades) = 0 \/ dr.k = "absent" THEN [exc |-> NoExc, errs |-> <<>>]
    ELSE IF \E i \in DOMAIN tv : ParseOutcome(tv[i]) # "ok" THEN caught
    ELSE IF tv = <<>> THEN [exc |-> NoExc, errs |-> <<>>]
    ELSE IF dr.k # "dict" THEN caught
    ELSE IF ~Has(dr.start) THEN keyError
    ELSE IF ParseOutcome(dr.start) # "ok" THEN caught
    ELSE IF ~Has(dr.end) THEN keyError
    ELSE IF ParseOutcome(dr.end) # "ok" THEN caught
    ELSE [exc |-> NoExc,
          errs |-> (IF Abs(MinOf(dates) - dr.start.n) > 1
                    THEN <<Msg("consistency", 0, "date_range_start_mismatch", "date_range")>>
                    ELSE <<>>)
                   \o
                   (IF Abs(MaxOf(dates) - dr.end.n) > 1
                    THEN <<Msg("consistency", 0, "date_range_end_mismatch", "date_range")>>
                    ELSE <<>>)]

\* _validate_consistency, lines 195-234
ValidateConsistencyErrors(d) == TradeCountErrors(d) \o DateRangeConsistency(d).errs

ValidateConsistencyExc(d) == DateRangeConsistency(d).exc

\* line 48
IsValidMutant(errs, warns) == Len(errs) = 0 /\ Len(warns) = 0

IsValid(errs, warns) == Len(errs) = 0

\* line 52: len(data.get('trades', [])) has no value for None or a number
ReturnExc(d) == IF d.tk = "unsized" THEN "TypeError" ELSE NoExc

\* lines 47-56
ValidationResult(d, errs, warns) ==
    [is_valid |-> IsValid(errs, warns), errors |-> errs, warnings |-> warns,
     total_trades |-> IF d.tk = "absent" THEN 0 ELSE Len(d.trades)]

NoResult == [is_valid |-> FALSE, errors |-> <<>>, warnings |-> <<>>, total_trades |-> -1]

-----------------------------------------------------------------------------
(* Construction of TradingData from parsed_data: the pydantic models      *)

\* Trade, lines 36-61
TradeModelAccepts(t) ==
    /\ HasValue(t["ticket"])
    /\ t["open_time"].k \in {"iso", "num"}
    /\ \/ ~HasValue(t["close_time"])
       \/ t["close_time"].k = "num"
       \/ /\ t["close_time"].k = "iso"
          /\ t["open_time"].k = "iso" => ~(t["close_time"].n < t["open_time"].n)
    /\ t["type"].k = "str" /\ t["type"].s \in ValidTradeTypes
    /\ IsNumeric(t["size"]) /\ t["size"].n > 0
    /\ HasValue(t["symbol"])
    /\ IsNumeric(t["open_price"]) /\ t["open_price"].n > 0
    /\ ~HasValue(t["close_price"]) \/ (IsNumeric(t["close_price"]) /\ t["close_price"].n > 0)
    /\ ~HasValue(t["stop_loss"]) \/ IsNumeric(t["stop_loss"])
    /\ ~HasValue(t["take_profit"]) \/ IsNumeric(t["take_profit"])
    /\ IsNumeric(t["profit"])

\* DataMetadata, lines 92-103
MetadataModelAccepts(m) ==
    /\ HasValue(m.source) /\ HasValue(m.account) /\ HasValue(m.currency)
    /\ IsNumeric(m.leverage) /\ m.leverage.n > 0
    /\ IsNumeric(m.total_trades) /\ m.total_trades.n >= 0
    /\ m.date_range.k = "dict"
    /\ \A v \in {m.date_range.start, m.date_range.end} : Has(v) => v.k \in {"iso", "num"}

\* TradingData, lines 106-115
TradingDataAccepts(d) ==
    /\ d.tk = "list" /\ d.mk = "dict"
    /\ Len(d.trades) > 0
    /\ \A i \in DOMAIN d.trades : TradeModelAccepts(d.trades[i])
    /\ MetadataModelAccepts(d.metadata)

-----------------------------------------------------------------------------
(* Parsed data sets the upload flow is run on                              *)

MaxTrades == 2

Sym(c) == Str(c)

EURUSD == <<"E","U","R","U","S","D">>
USDJPY == <<"U","S","D","J","P","Y">>

\* buy 1.00 lot EURUSD 1.1000 -> 1.1050, closed, profit 452
BaseClosed ==
    ("ticket" :> Str(<<"1">>)) @@ ("open_time" :> Iso(1)) @@ ("close_time" :> Iso(2))
    @@ ("type" :> Str(BuyStr)) @@ ("size" :> Num(100)) @@ ("symbol" :> Sym(EURUSD))
    @@ ("open_price" :> Num(11000)) @@ ("close_price" :> Num(11050))
    @@ ("stop_loss" :> Null) @@ ("take_profit" :> Null) @@ ("profit" :> Num(452))

\* sell 0.10 lot USDJPY at 110.00, still open
BaseOpen ==
    ("ticket" :> Str(<<"2">>)) @@ ("open_time" :> Iso(2)) @@ ("close_time" :> Null)
    @@ ("type" :> Str(SellStr)) @@ ("size" :> Num(10)) @@ ("symbol" :> Sym(USDJPY))
    @@ ("open_price" :> Num(1100000)) @@ ("close_price" :> Null)
    @@ ("stop_loss" :> Num(1110000)) @@ ("take_profit" :> Absent) @@ ("profit" :> Num(-20))

With(t, f, v) == [t EXCEPT ![f] = v]

\* each sample departs from a base trade in one field
TradeSamples ==
    { BaseClosed, BaseOpen,
      With(BaseClosed, "symbol", Absent),
      With(BaseClosed, "symbol", Null),
      With(BaseOpen, "symbol", Null),
      With(BaseOpen, "symbol", Num(7)),
      With(BaseClosed, "symbol", Sym(<<"E","U","R","1">>)),
      With(BaseClosed, "profit", Null),
      With(BaseClosed, "profit", Absent),
      With(BaseClosed, "profit", Num(-100)),
      With(BaseClosed, "close_price", Num(0)),
      With(BaseClosed, "close_price", Num(-5)),
      With(BaseClosed, "type", Str(<<"h","o","l","d">>)),
      With(BaseOpen, "type", Null),
      With(BaseClosed, "size", Num(0)),
      With(BaseClosed, "size", Str(<<"x">>)),
      With(BaseOpen, "size", Num(MaxTradeSize + 1)),
      With(BaseClosed, "stop_loss", Num(MaxPrice + 1)),
      With(BaseClosed, "open_time", Str(<<"x">>)),
      With(BaseClosed, "open_time", Num(3)),
      With(BaseOpen, "open_time", Iso(Now + 1)),
      With(BaseClosed, "close_time", Iso(0)),
      With(BaseClosed, "ticket", Absent) }

\* the samples any number of trades of a data set may be
CoreSamples ==
    { BaseClosed, BaseOpen,
      With(BaseClosed, "symbol", Null),
      With(BaseClosed, "type", Str(<<"h","o","l","d">>)),
      With(BaseOpen, "size", Num(MaxTradeSize + 1)) }

\* data sets of up to MaxTrades trades, at most one of them outside CoreSamples
TradeLists ==
    UNION {{ts \in [1..n -> TradeSamples] : Cardinality({i \in 1..n : ts[i] \notin CoreSamples}) <= 1}
           : n \in 1..MaxTrades}

\* a metadata that agrees with the trades: their number and the span of
\* their well-formed times
BaseMeta(trades) ==
    LET tv == TimeValues(trades)
        dates == {tv[i].n : i \in {j \in DOMAIN tv : tv[j].k = "iso"}}
    IN [source |-> Str(<<"M","T","5">>), account |-> Str(<<"u">>), currency |-> Str(<<"U","S","D">>),
        leverage |-> Num(100), total_trades |-> Num(Len(trades)),
        date_range |-> [k |-> "dict",
                        start |-> Iso(IF dates = {} THEN 1 ELSE MinOf(dates)),
                        end |-> Iso(IF dates = {} THEN 2 ELSE MaxOf(dates))]]

\* each variant departs from it in one field
MetaVariants(trades) ==
    LET m == BaseMeta(trades) IN
    { m,
      [m EXCEPT !.total_trades = Num(Len(trades) + 1)],
      [m EXCEPT !.total_trades = Num(Len(trades) - 1)],
      [m EXCEPT !.total_trades = Num(-1)],
      [m EXCEPT !.total_trades = Str(<<"5">>)],
      [m EXCEPT !.total_trades = Null],
      [m EXCEPT !.total_trades = Absent],
      [m EXCEPT !.leverage = Num(0)],
      [m EXCEPT !.account = Absent],
      [m EXCEPT !.date_range.end = Absent],
      [m EXCEPT !.date_range.start = Iso(m.date_range.start.n - 2)],
      [m EXCEPT !.date_range.k = "other"] }

ParsedData ==
    UNION {{[tk |-> "list", trades |-> ts, mk |-> "dict", metadata |-> m] : m \in MetaVariants(ts)}
           : ts \in TradeLists}
    \cup
    {[tk |-> tk, trades |-> <<>>, mk |-> mk, metadata |-> BaseMeta(<<>>)]
       : tk \in {"absent", "list", "sized", "unsized"}, mk \in {"absent", "dict", "other"}}
    \cup
    {[tk |-> "list", trades |-> <<BaseClosed>>, mk |-> mk, metadata |-> BaseMeta(<<>>)]
       : mk \in {"absent", "other"}}

-----------------------------------------------------------------------------
(* upload_trading_data, data_upload.py lines 25-144, with the validator's  *)
(* stages as steps of their own                                            *)

NoRaise == [exc |-> NoExc, at |-> "none"]

NoData == [tk |-> "none", trades |-> <<>>, mk |-> "absent", metadata |-> BaseMeta(<<>>)]

\* lines 37-51: no file name, extension not allowed, file too large
UploadRejectFile ==
    /\ upc = "start"
    /\ \E status \in {400, 413} : response' = status
    /\ upc' = "done"
    /\ UNCHANGED <<data, errors, warnings, result, raised, storage>>
    /\ UNCHANGED exceptUpload

\* lines 68-84: a plugin or DataProcessor.process_file produced parsed_data
UploadParse ==
    /\ upc = "start"
    /\ \E d \in ParsedData : data' = d
    /\ upc' = "structure"
    /\ UNCHANGED <<errors, warnings, result, raised, storage, response>>
    /\ UNCHANGED exceptUpload

\* lines 81-84: process_file raised
UploadParseFails ==
    /\ upc = "start"
    /\ raised' = [exc |-> "ValueError", at |-> "process_file"]
    /\ upc' = "failed"
    /\ UNCHANGED <<data, errors, warnings, result, storage, response>>
    /\ UNCHANGED exceptUpload

\* data_validator.py lines 26-33
StepStructure ==
    /\ upc = "structure"
    /\ errors' = errors \o ValidateStructure(data)
    /\ upc' = IF errors' = <<>> THEN "trades" ELSE "return"
    /\ UNCHANGED <<data, warnings, result, raised, storage, response>>
    /\ UNCHANGED exceptUpload

\* data_validator.py lines 35-37
StepTrades ==
    /\ upc = "trades"
    /\ IF ValidateTradesExc(data.trades) # NoExc
       THEN /\ raised' = [exc |-> ValidateTradesExc(data.trades), at |-> "_validate_trades"]
            /\ upc' = "failed"
            /\ UNCHANGED <<errors, warnings>>
       ELSE /\ errors' = errors \o ValidateTradesErrors(data.trades)
            /\ warnings' = warnings \o ValidateTradesWarnings(data.trades)
            /\ upc' = "metadata"
            /\ UNCHANGED raised
    /\ UNCHANGED <<data, result, storage, response>>
    /\ UNCHANGED exceptUpload

\* data_validator.py lines 40-41
StepMetadata ==
    /\ upc = "metadata"
    /\ errors' = errors \o ValidateMetadata(data.metadata)
    /\ upc' = "consistency"
    /\ UNCHANGED <<data, warnings, result, raised, storage, response>>
    /\ UNCHANGED exceptUpload

\* data_validator.py lines 44-45
StepConsistency ==
    /\ upc = "consistency"
    /\ IF ValidateConsistencyExc(data) # NoExc
       THEN /\ raised' = [exc |-> ValidateConsistencyExc(data), at |-> "_validate_consistency"]
            /\ upc' = "failed"
            /\ UNCHANGED errors
       ELSE /\ errors' = errors \o ValidateConsistencyErrors(data)
            /\ upc' = "return"
            /\ UNCHANGED raised
    /\ UNCHANGED <<data, warnings, result, storage, response>>
    /\ UNCHANGED exceptUpload

\* data_validator.py lines 47-56
StepReturn ==
    /\ upc = "return"
    /\ IF ReturnExc(data) # NoExc
       THEN /\ raised' = [exc |-> ReturnExc(data), at |-> "validate_trading_data"]
            /\ upc' = "failed"
            /\ UNCHANGED result
       ELSE /\ result' = ValidationResult(data, errors, warnings)
            /\ upc' = "validated"
            /\ UNCHANGED raised
    /\ UNCHANGED <<data, errors, warnings, storage, response>>
    /\ UNCHANGED exceptUpload

\* line 90: the validation result blocks the upload
RejectsMutant(r) == ~r.is_valid \/ Len(r.warnings) > 0

Rejects(r) == ~r.is_valid

\* lines 90-97
UploadCheckValid ==
    /\ upc = "validated"
    /\ IF Rejects(result)
       THEN response' = 422 /\ upc' = "done"
       ELSE response' = response /\ upc' = "store"
    /\ UNCHANGED <<data, errors, warnings, result, raised, storage>>
    /\ UNCHANGED exceptUpload

\* lines 99-130
UploadStore ==
    /\ upc = "store"
    /\ IF TradingDataAccepts(data)
       THEN /\ storage' = storage \cup {data}
            /\ response' = 200
            /\ upc' = "done"
            /\ UNCHANGED raised
       ELSE /\ raised' = [exc |-> "ValidationError", at |-> "TradingData"]
            /\ upc' = "failed"
            /\ UNCHANGED <<storage, response>>
    /\ UNCHANGED <<data, errors, warnings, result>>
    /\ UNCHANGED exceptUpload

\* lines 134-144
UploadHandleError ==
    /\ upc = "failed"
    /\ response' = 500
    /\ upc' = "done"
    /\ UNCHANGED <<data, errors, warnings, result, raised, storage>>
    /\ UNCHANGED exceptUpload

NextUpload ==
    \/ UploadRejectFile \/ UploadParse \/ UploadParseFails
    \/ StepStructure \/ StepTrades \/ StepMetadata \/ StepConsistency \/ StepReturn
    \/ UploadCheckValid \/ UploadStore \/ UploadHandleError

-----------------------------------------------------------------------------
(* DataProcessor: column standardisation, data_processor.py                *)

cTicket == <<"t","i","c","k","e","t">>
cOpenTime == <<"o","p","e","n","_","t","i","m","e">>
cCloseTime == <<"c","l","o","s","e","_","t","i","m","e">>
cType == <<"t","y","p","e">>
cSize == <<"s","i","z","e">>
cSymbol == <<"s","y","m","b","o","l">>
cOpenPrice == <<"o","p","e","n","_","p","r","i","c","e">>
cClosePrice == <<"c","l","o","s","e","_","p","r","i","c","e">>
cStopLoss == <<"s","t","o","p","_","l","o","s","s">>
cTakeProfit == <<"t","a","k","e","_","p","r","o","f","i","t">>
cCommission == <<"c","o","m","m","i","s","s","i","o","n">>
cSwap == <<"s","w","a","p">>
cProfit == <<"p","r","o","f","i","t">>
hTicket == <<"T","i","c","k","e","t">>
hOpenTime == <<"O","p","e","n"," ","T","i","m","e">>
hType == <<"T","y","p","e">>
hSize == <<"S","i","z","e">>
hSymbol == <<"S","y","m","b","o","l">>
hPrice == <<"P","r","i","c","e">>
hSL == <<"S","/","L">>
hTP == <<"T","/","P">>
hCloseTime == <<"C","l","o","s","e"," ","T","i","m","e">>
hClosePrice == <<"C","l","o","s","e"," ","P","r","i","c","e">>
hCommission == <<"C","o","m","m","i","s","s","i","o","n">>
hSwap == <<"S","w","a","p">>
hProfit == <<"P","r","o","f","i","t">>
hOrder == <<"O","r","d","e","r">>
hTime == <<"T","i","m","e">>
hItem == <<"I","t","e","m">>
hSL4 == <<"S"," ","/"," ","L">>
hTP4 == <<"T"," ","/"," ","P">>
hTime1 == <<"T","i","m","e",".","1">>
hPrice1 == <<"P","r","i","c","e",".","1">>
hTaxes == <<"T","a","x","e","s">>
gId == <<"i","d">>
gOpenDate == <<"O","p","e","n"," ","D","a","t","e">>
gDirection == <<"d","i","r","e","c","t","i","o","n">>
gVolume == <<"V","o","l","u","m","e">>
gPair == <<"p","a","i","r">>
gOpenPrice == <<"o","p","e","n"," ","p","r","i","c","e">>
gPnl == <<"P","n","L">>
gCloseDate == <<"c","l","o","s","e"," ","d","a","t","e">>
gClosePrice == <<"C","l","o","s","e"," ","P","r","i","c","e"," ">>
sAuto == <<"a","u","t","o">>
sMT5 == <<"M","T","5">>
sMT4 == <<"M","T","4">>
sGeneric == <<"G","e","n","e","r","i","c">>
sCTrader == <<"c","T","r","a","d","e","r">>
sMt5Lower == <<"m","t","5">>

\* self.mt5_columns, lines 20-34, in dictionary order
Mt5Columns ==
    << <<hTicket, cTicket>>, <<hOpenTime, cOpenTime>>, <<hType, cType>>, <<hSize, cSize>>,
       <<hSymbol, cSymbol>>, <<hPrice, cOpenPrice>>, <<hSL, cStopLoss>>, <<hTP, cTakeProfit>>,
       <<hCloseTime, cCloseTime>>, <<hClosePrice, cClosePrice>>, <<hCommission, cCommission>>,
       <<hSwap, cSwap>>, <<hProfit, cProfit>> >>

\* self.mt4_columns, lines 36-51
Mt4Columns ==
    << <<hOrder, cTicket>>, <<hTime, cOpenTime>>, <<hType, cType>>, <<hSize, cSize>>,
       <<hItem, cSymbol>>, <<hPrice, cOpenPrice>>, <<hSL4, cStopLoss>>, <<hTP4, cTakeProfit>>,
       <<hTime1, cCloseTime>>, <<hPrice1, cClosePrice>>, <<hCommission, cCommission>>,
       <<hTaxes, cSwap>>, <<hSwap, cSwap>>, <<hProfit, cProfit>> >>

\* line 109
RequiredColumns == <<cTicket, cOpenTime, cType, cSize, cSymbol, cOpenPrice, cProfit>>

\* Python's str.strip for blanks
RECURSIVE StripLeft(_)
StripLeft(s) == IF s # <<>> /\ Head(s) = " " THEN StripLeft(Tail(s)) ELSE s

RECURSIVE StripRight(_)
StripRight(s) == IF s # <<>> /\ s[Len(s)] = " " THEN StripRight(SubSeq(s, 1, Len(s) - 1)) ELSE s

Strip(s) == StripRight(StripLeft(s))

AnyIn(keywords, text) == \E w \in keywords : Contains(text, w)

\* the keyword lists of _auto_map_columns that are tested on their own,
\* lines 373-397, in the order of the chain, each with its canonical field
KeywordGroups ==
    << <<cTicket, {<<"t","i","c","k","e","t">>, <<"o","r","d","e","r">>, <<"i","d">>}>>,
       <<cType, {<<"t","y","p","e">>, <<"d","i","r","e","c","t","i","o","n">>, <<"s","i","d","e">>}>>,
       <<cSize, {<<"s","i","z","e">>, <<"v","o","l","u","m","e">>, <<"l","o","t">>}>>,
       <<cSymbol, {<<"s","y","m","b","o","l">>, <<"p","a","i","r">>, <<"i","n","s","t","r","u","m","e","n","t">>}>>,
       <<cProfit, {<<"p","r","o","f","i","t">>, <<"p","n","l">>, <<"p","&","l">>}>>,
       <<cCommission, {<<"c","o","m","m","i","s","s","i","o","n">>, <<"f","e","e">>}>>,
       <<cSwap, {<<"s","w","a","p">>, <<"r","o","l","l","o","v","e","r">>}>>,
       <<cStopLoss, {<<"s","l">>, <<"s","t","o","p">>}>>,
       <<cTakeProfit, {<<"t","p">>, <<"t","a","k","e">>}>> >>

\* the chain of tests of _auto_map_columns, lines 371-398, for one header;
\* <<>> when no test matches
AutoMapTarget(col) ==
    LET c == Strip(Lower(col)) IN
    IF AnyIn({<<"t","i","c","k","e","t">>, <<"o","r","d","e","r">>, <<"i","d">>}, c) THEN cTicket
    ELSE IF AnyIn({<<"o","p","e","n">>, <<"s","t","a","r","t">>}, c) /\ AnyIn({<<"t","i","m","e">>, <<"d","a","t","e">>}, c) THEN cOpenTime
    ELSE IF AnyIn({<<"c","l","o","s","e">>, <<"e","n","d">>}, c) /\ AnyIn({<<"t","i","m","e">>, <<"d","a","t","e">>}, c) THEN cCloseTime
    ELSE IF c \in {<<"t","y","p","e">>, <<"d","i","r","e","c","t","i","o","n">>, <<"s","i","d","e">>} THEN cType
    ELSE IF AnyIn({<<"s","i","z","e">>, <<"v","o","l","u","m","e">>, <<"l","o","t">>}, c) THEN cSize
    ELSE IF AnyIn({<<"s","y","m","b","o","l">>, <<"p","a","i","r">>, <<"i","n","s","t","r","u","m","e","n","t">>}, c) THEN cSymbol
    ELSE IF AnyIn({<<"o","p","e","n">>}, c) /\ AnyIn({<<"p","r","i","c","e">>}, c) THEN cOpenPrice
    ELSE IF AnyIn({<<"c","l","o","s","e">>}, c) /\ AnyIn({<<"p","r","i","c","e">>}, c) THEN cClosePrice
    ELSE IF AnyIn({<<"p","r","o","f","i","t">>, <<"p","n","l">>, <<"p","&","l">>}, c) THEN cProfit
    ELSE IF AnyIn({<<"c","o","m","m","i","s","s","i","o","n">>, <<"f","e","e">>}, c) THEN cCommission
    ELSE IF c \in {<<"s","w","a","p">>, <<"r","o","l","l","o","v","e","r">>} THEN cSwap
    ELSE IF AnyIn({<<"s","l">>, <<"s","t","o","p">>}, c) THEN cStopLoss
    ELSE IF AnyIn({<<"t","p">>, <<"t","a","k","e">>}, c) THEN cTakeProfit
    ELSE <<>>

\* _auto_map_columns, lines 363-400: the mapping in column order
AutoMapColumns(cols) ==
    LET mapped == SelectSeq(cols, LAMBDA col : AutoMapTarget(col) # <<>>)
    IN [i \in DOMAIN mapped |-> <<mapped[i], AutoMapTarget(mapped[i])>>]

\* _detect_source, lines 345-361
DetectSource(cols) ==
    IF {hTicket, hOpenTime, hCloseTime, hSymbol, hType} \subseteq Range(cols) THEN sMT5
    ELSE IF {hOrder, hTime, hItem, hType} \subseteq Range(cols) THEN sMT4
    ELSE sGeneric

\* lines 90-100
ColumnMapping(cols, source) ==
    LET src == IF source = sAuto THEN DetectSource(cols) ELSE source IN
    IF Upper(src) = sMT5 THEN Mt5Columns
    ELSE IF Upper(src) = sMT4 THEN Mt4Columns
    ELSE AutoMapColumns(cols)

\* DataFrame.rename(columns={old: new})
Rename(cols, old, new) == [i \in DOMAIN cols |-> IF cols[i] = old THEN new ELSE cols[i]]

\* lines 103-106: the renames in mapping order, each for a header of the
\* original frame
RECURSIVE RenameAll(_, _, _)
RenameAll(renamed, original, mapping) ==
    IF mapping = <<>> THEN renamed
    ELSE RenameAll(IF Head(mapping)[1] \in Range(original)
                   THEN Rename(renamed, Head(mapping)[1], Head(mapping)[2])
                   ELSE renamed,
                   original, Tail(mapping))

\* line 110, reporting only the first missing column
MissingColumnsMutant(cols) ==
    LET all == SelectSeq(RequiredColumns, LAMBDA c : c \notin Range(cols))
    IN IF all = <<>> THEN <<>> ELSE <<Head(all)>>

\* line 110
MissingColumns(cols) == SelectSeq(RequiredColumns, LAMBDA c : c \notin Range(cols))

(* Header rows the normalizer is run on: a complete MT5, MT4 or generic    *)
(* export with up to MaxDropped headers removed and at most one more added *)

MaxDropped == 2

Mt5Export == <<hTicket, hOpenTime, hType, hSize, hSymbol, hPrice, hCloseTime, hProfit>>

Mt4Export == <<hOrder, hTime, hType, hSize, hItem, hPrice, hProfit>>

GenericExport == <<gId, gOpenDate, gDirection, gVolume, gPair, gOpenPrice, gPnl>>

\* headers that are keywords of the type, swap and stop_loss groups up to
\* case and surrounding blanks
gSide == <<"S","i","d","e">>
gRollover == <<" ","r","o","l","l","o","v","e","r">>
gSL == <<"S","L">>

ExtraHeaders == {gClosePrice, cTakeProfit, cTicket, gSide, gRollover, gSL}

DeclaredSources == {sAuto, sMT5, sMT4, sGeneric, sCTrader, sMt5Lower}

HeaderRows ==
    UNION {UNION {{SelectSeq(base, LAMBDA h : h \notin dropped) \o extra
                   : extra \in {<<>>} \cup {<<h>> : h \in ExtraHeaders}}
                  : dropped \in {d \in SUBSET Range(base) : Cardinality(d) <= MaxDropped}}
           : base \in {Mt5Export, Mt4Export, GenericExport}}

\* process_file lines 58-65: the file is read into a frame
NormRead ==
    /\ npc = "start"
    /\ \E cols \in HeaderRows, source \in DeclaredSources :
           nheaders' = cols /\ ncols' = cols /\ nsource' = source
    /\ npc' = "standardize"
    /\ UNCHANGED <<nerror, nout>>
    /\ UNCHANGED exceptNorm

\* process_file lines 58-63, 82-84: unsupported extension or unreadable file
NormReadFails ==
    /\ npc = "start"
    /\ npc' = "read_failed"
    /\ UNCHANGED <<nheaders, ncols, nsource, nerror, nout>>
    /\ UNCHANGED exceptNorm

\* _standardize_columns, lines 86-115
NormStandardize ==
    /\ npc = "standardize"
    /\ ncols' = RenameAll(ncols, nheaders, ColumnMapping(nheaders, nsource))
    /\ IF MissingColumns(ncols') # <<>>
       THEN nerror' = MissingColumns(ncols') /\ npc' = "schema_failed"
       ELSE nerror' = nerror /\ npc' = "clean"
    /\ UNCHANGED <<nheaders, nsource, nout>>
    /\ UNCHANGED exceptNorm

\* _handle_missing_values line 200 reads close_time whenever close_price exists
CleanKeyError(cols) == cClosePrice \in Range(cols) /\ cCloseTime \notin Range(cols)

\* process_file lines 70-80
NormProduce ==
    /\ npc = "clean"
    /\ ~CleanKeyError(ncols)
    /\ nout' = "produced"
    /\ npc' = "done"
    /\ UNCHANGED <<nheaders, ncols, nsource, nerror>>
    /\ UNCHANGED exceptNorm

\* process_file lines 70-75, 82-84: cleaning or extraction raised
NormCleanFails ==
    /\ npc = "clean"
    /\ npc' = "clean_failed"
    /\ UNCHANGED <<nheaders, ncols, nsource, nerror, nout>>
    /\ UNCHANGED exceptNorm

NextNorm ==
    NormRead \/ NormReadFails \/ NormStandardize \/ NormProduce \/ NormCleanFails

(* One DataProcessor processing one file after another: process_file as a  *)
(* function of the instance and of the file                                *)

MaxCalls == 3

\* DataProcessor.__init__, lines 19-51
NewDataProcessor == [mt5_columns |-> Mt5Columns, mt4_columns |-> Mt4Columns]

\* a file: extension of the file name, header row, declared source and the
\* open times of its rows in file order
File(ext, headers, source, times) ==
    [ext |-> ext, headers |-> headers, source |-> source, times |-> times]

RepeatFiles ==
    {File("csv", headers, source, <<2, 1>>) :
         headers \in {Mt5Export, Mt4Export, GenericExport}, source \in {sAuto, sMT4}}
    \cup {File("txt", Mt5Export, sAuto, <<1, 2>>), File("xlsx", Mt5Export, sAuto, <<1, 2>>)}

\* lines 90-100 with the dictionaries of the instance
SelectMapping(self, cols, source) ==
    LET src == IF source = sAuto THEN DetectSource(cols) ELSE source IN
    IF Upper(src) = sMT5 THEN self.mt5_columns
    ELSE IF Upper(src) = sMT4 THEN self.mt4_columns
    ELSE AutoMapColumns(cols)

Raises(exception) == [raised |-> exception, columns |-> <<>>, rows |-> <<>>]

\* process_file, lines 53-84: what it returns or raises; the rows are
\* sorted by open_time (line 135)
ProcessFile(self, file) ==
    IF file.ext \notin {"csv", "xlsx", "xls"} THEN Raises("ValueError: Unsupported file format")
    ELSE LET cols == RenameAll(file.headers, file.headers,
                               SelectMapping(self, file.headers, file.source))
         IN IF MissingColumns(cols) # <<>> THEN Raises("ValueError: Missing required columns")
            ELSE IF CleanKeyError(cols) THEN Raises("KeyError")
            ELSE [raised |-> "none", columns |-> cols,
                  rows |-> SortSeq(file.times, LAMBDA a, b : a < b)]

\* process_file keeping the selected mapping as the instance's MT5 dictionary
SelfAfterProcessMutant(self, file) ==
    [self EXCEPT !.mt5_columns = SelectMapping(self, file.headers, file.source)]

\* process_file, lines 53-115: no attribute of the instance is assigned
SelfAfterProcess(self, file) == self

\* one call of process_file on the instance
RepeatProcess ==
    /\ rpc = "ready"
    /\ Len(rlog) < MaxCalls
    /\ \E file \in RepeatFiles :
           /\ rlog' = Append(rlog, [file |-> file, out |-> ProcessFile(rself, file)])
           /\ rself' = SelfAfterProcess(rself, file)
    /\ UNCHANGED rpc
    /\ UNCHANGED exceptRepeat

NextRepeat == RepeatProcess

-----------------------------------------------------------------------------
(* Pips: DataProcessor._calculate_additional_fields and Trade.calculate_pips*)

MaxPipPrice == 3

HUF == <<"H","U","F">>

\* data_processor.py lines 257-263: the symbol is upper-cased first
NormalizerPipMultiplier(symbol) ==
    IF Contains(Upper(symbol), JPY) \/ Contains(Upper(symbol), HUF) THEN 100 ELSE 10000

\* data_processor.py lines 266-269, a sell trade computed like a buy trade
NormalizerPipsMutant(t) ==
    (t.close_price - t.open_price) * NormalizerPipMultiplier(t.symbol)

\* data_processor.py lines 253-271; the result is in units of 0.0001 pip
NormalizerPips(t) ==
    IF t.type = BuyStr
    THEN (t.close_price - t.open_price) * NormalizerPipMultiplier(t.symbol)
    ELSE (t.open_price - t.close_price) * NormalizerPipMultiplier(t.symbol)

\* trading_data.py lines 79-83: the symbol as stored
ModelPipMultiplier(symbol) ==
    IF Contains(symbol, JPY) \/ Contains(symbol, HUF) THEN 100 ELSE 10000

\* trading_data.py lines 70-89
ModelPips(t) ==
    IF t.type = BuyStr
    THEN (t.close_price - t.open_price) * ModelPipMultiplier(t.symbol)
    ELSE (t.open_price - t.close_price) * ModelPipMultiplier(t.symbol)

PipSymbols == {EURUSD, USDJPY, <<"u","s","d","j","p","y">>, <<"E","U","R","H","U","F">>}

\* closed trades as _remove_invalid_trades leaves them: buy or sell, open_price > 0
PipTrades ==
    [type : {BuyStr, SellStr}, symbol : PipSymbols,
     open_price : 1..MaxPipPrice, close_price : 0..MaxPipPrice]

\* _calculate_additional_fields, lines 253-271
PipNormalize ==
    /\ ppc = "start"
    /\ ppips' = [ppips EXCEPT !.normalizer = NormalizerPips(ptrade)]
    /\ ppc' = "extracted"
    /\ UNCHANGED ptrade
    /\ UNCHANGED exceptPips

\* Trade(...), trading_data.py lines 45, 70-89: close_price must be > 0
PipLoad ==
    /\ ppc = "extracted"
    /\ IF ptrade.close_price > 0
       THEN ppips' = [ppips EXCEPT !.model = ModelPips(ptrade)] /\ ppc' = "loaded"
       ELSE ppips' = ppips /\ ppc' = "rejected"
    /\ UNCHANGED ptrade
    /\ UNCHANGED exceptPips

NextPips ==
    PipNormalize \/ PipLoad

-----------------------------------------------------------------------------
(* Performance: AnalysisEngine.calculate_performance_metrics,              *)
(* AnalysisEngine._analyze_drawdown and TradingData.get_summary_stats      *)

MaxProfits == 3
MaxProfit == 2

ProfitValues == (0 - MaxProfit)..MaxProfit

ProfitLists == UNION {[1..n -> ProfitValues] : n \in 1..MaxProfits}

Count(seq, Test(_)) == Cardinality({i \in DOMAIN seq : Test(seq[i])})

\* Series.cumsum
RECURSIVE CumSum(_)
CumSum(seq) ==
    IF seq = <<>> THEN <<>>
    ELSE LET front == CumSum(SubSeq(seq, 1, Len(seq) - 1))
         IN Append(front, (IF front = <<>> THEN 0 ELSE front[Len(front)]) + seq[Len(seq)])

\* Series.cummax
CumMax(seq) == [i \in DOMAIN seq |-> MaxOf({seq[j] : j \in 1..i})]

\* equity_curve - running_max, analysis_engine.py lines 127-131 and 332-334
Drawdown(profits) ==
    LET equity == CumSum(profits)
        running == CumMax(equity)
    IN [i \in DOMAIN profits |-> equity[i] - running[i]]

\* the drawdown reported as the largest distance below the peak
MaxDrawdownMutant(profits) == MaxOf({0 - Drawdown(profits)[i] : i \in DOMAIN profits})

\* drawdown.min(), lines 132 and 355
MaxDrawdown(profits) == MinOf(Range(Drawdown(profits)))

\* Python's round() of a / b to an integer, b > 0, a >= 0: ties go to the even side
RoundDiv(a, b) ==
    LET q == a \div b
        r == a % b
    IN IF 2 * r < b THEN q
       ELSE IF 2 * r > b THEN q + 1
       ELSE IF q % 2 = 0 THEN q ELSE q + 1

\* Series.sum / sum()
RECURSIVE SumOf(_)
SumOf(seq) == IF seq = <<>> THEN 0 ELSE Head(seq) + SumOf(Tail(seq))

RECURSIVE Gcd(_, _)
Gcd(a, b) == IF b = 0 THEN a ELSE Gcd(b, a % b)

(* A computed number: k = "num" is num / den in lowest terms, den > 0;     *)
(* "root" is (num / den) * sqrt(var / dof), a standard deviation or a      *)
(* quotient by one; "inf" is float('inf'), "nan" the NaN of pandas and     *)
(* "ZeroDivisionError" the exception of a division of Python numbers.      *)
Value(k, num, den, var, dof) == [k |-> k, num |-> num, den |-> den, var |-> var, dof |-> dof]

Zero == Value("num", 0, 1, 1, 1)

PosInf == Value("inf", 1, 1, 1, 1)

NegInf == Value("inf", 0 - 1, 1, 1, 1)

NotANumber == Value("nan", 0, 1, 1, 1)

DivisionError == Value("ZeroDivisionError", 0, 1, 1, 1)

\* a / b for b # 0
Frac(a, b) ==
    LET g == Gcd(Abs(a), Abs(b))
    IN Value("num", (IF b < 0 THEN 0 - a ELSE a) \div g, Abs(b) \div g, 1, 1)

\* x == 0: false for NaN and inf
IsZero(x) == x.k \in {"num", "root"} /\ (x.num = 0 \/ x.var = 0)

\* n / d for a number n and NumPy's float64 d: no exception, inf or NaN for d = 0
Divide(n, d) ==
    IF n.k = "nan" \/ d.k = "nan" THEN NotANumber
    ELSE IF IsZero(d) THEN (IF IsZero(n) THEN NotANumber
                            ELSE IF n.num > 0 THEN PosInf ELSE NegInf)
    ELSE IF IsZero(n) THEN Zero
    ELSE LET q == Frac(n.num * d.den, n.den * d.num)
         IN Value(d.k, q.num, q.den, d.dof, d.var)

\* a / b for Python's int and float
PyDivide(a, b) == IF b = 0 THEN DivisionError ELSE Frac(a, b)

\* Series.mean
Mean(xs) == IF xs = <<>> THEN NotANumber ELSE Frac(SumOf(xs), Len(xs))

\* n * (n - 1) times the sample variance
SampleVar(xs) == Len(xs) * SumOf([i \in DOMAIN xs |-> xs[i] * xs[i]]) - SumOf(xs) * SumOf(xs)

\* Series.std with its default ddof = 1: NaN for fewer than two values
Std(xs) ==
    IF Len(xs) < 2 THEN NotANumber
    ELSE Value("root", 1, 1, SampleVar(xs), Len(xs) * (Len(xs) - 1))

\* abs(x)
AbsRatio(x) == [x EXCEPT !.num = Abs(x.num)]

\* round(x, 2) of a rational in hundredths; round() leaves inf and nan as they are
Round2(x) ==
    IF x.k # "num" THEN x
    ELSE Value("num", (IF x.num < 0 THEN 0 - RoundDiv(100 * (0 - x.num), x.den)
                       ELSE RoundDiv(100 * x.num, x.den)), 100, 1, 1)

\* df[df['profit'] > 0]['profit'] and df[df['profit'] < 0]['profit']
Wins(profits) == SelectSeq(profits, LAMBDA x : x > 0)

Losses(profits) == SelectSeq(profits, LAMBDA x : x < 0)

\* line 123 dividing whenever there is a winning trade
EngineProfitFactorMutant(profits) ==
    IF SumOf(Wins(profits)) # 0 /\ SumOf(Losses(profits)) # 0
    THEN AbsRatio(Divide(Frac(SumOf(Wins(profits)), 1), Frac(SumOf(Losses(profits)), 1)))
    ELSE PosInf

\* analysis_engine.py line 123
EngineProfitFactor(profits) ==
    IF SumOf(Losses(profits)) # 0
    THEN AbsRatio(Divide(Frac(SumOf(Wins(profits)), 1), Frac(SumOf(Losses(profits)), 1)))
    ELSE PosInf

\* trading_data.py line 134
SummaryProfitFactor(profits) ==
    IF Losses(profits) # <<>>
    THEN AbsRatio(PyDivide(SumOf(Wins(profits)), SumOf(Losses(profits))))
    ELSE PosInf

\* lines 135-136 and 384 dividing by any standard deviation
EngineSharpeMutant(profits) == Divide(Mean(profits), Std(profits))

\* analysis_engine.py lines 135-136 and 384
EngineSharpe(profits) ==
    IF ~IsZero(Std(profits)) THEN Divide(Mean(profits), Std(profits)) ELSE Zero

\* analysis_engine.py line 139
EngineRecoveryFactor(profits) ==
    IF MaxDrawdown(profits) # 0
    THEN Divide(Frac(SumOf(profits), 1), Frac(Abs(MaxDrawdown(profits)), 1))
    ELSE PosInf

\* lines 387-388 (plugin.py lines 264-265)
DownsideDeviation(profits) ==
    IF Len(Losses(profits)) > 0 THEN Std(Losses(profits)) ELSE Zero

\* analysis_engine.py line 389
EngineSortino(profits) ==
    IF ~IsZero(DownsideDeviation(profits))
    THEN Divide(Mean(profits), DownsideDeviation(profits)) ELSE Zero

\* analysis_engine.py lines 392-396
EngineCalmar(profits) ==
    IF Abs(MaxDrawdown(profits)) # 0
    THEN Divide(Frac(SumOf(profits), 1), Frac(Abs(MaxDrawdown(profits)), 1))
    ELSE Zero

\* _calculate_risk_adjusted_returns, lines 378-403; the values are those
\* handed to round(x, 2), which keeps 0 as it is
RiskAdjustedReturns(profits) ==
    [sharpe_ratio |-> EngineSharpe(profits),
     sortino_ratio |-> EngineSortino(profits),
     calmar_ratio |-> EngineCalmar(profits)]

\* line 111 taking a zero profit for a win
WinningTradesMutant(profits) == Count(profits, LAMBDA x : x >= 0)

\* analysis_engine.py line 111
WinningTrades(profits) == Count(profits, LAMBDA x : x > 0)

\* analysis_engine.py line 112
LosingTrades(profits) == Count(profits, LAMBDA x : x < 0)

\* calculate_performance_metrics, lines 101-158; win_rate is
\* round(win_rate * 100, 2), held here in hundredths of a percent
PerformanceMetrics(profits) ==
    [total_trades |-> Len(profits),
     winning_trades |-> WinningTrades(profits),
     losing_trades |-> LosingTrades(profits),
     win_rate |-> RoundDiv(WinningTrades(profits) * 10000, Len(profits)),
     profit_factor |-> EngineProfitFactor(profits),
     profit_factor_reported |-> Round2(EngineProfitFactor(profits)),
     sharpe_ratio |-> EngineSharpe(profits),
     recovery_factor |-> EngineRecoveryFactor(profits),
     max_drawdown |-> MaxDrawdown(profits)]

\* get_summary_stats, lines 117-137; win_rate is the fraction num / den
SummaryStats(profits) ==
    [total_trades |-> Len(profits),
     winning_trades |-> Count(profits, LAMBDA x : x > 0),
     losing_trades |-> Count(profits, LAMBDA x : x < 0),
     win_rate |-> [num |-> Count(profits, LAMBDA x : x > 0), den |-> Len(profits)],
     profit_factor |-> SummaryProfitFactor(profits)]

\* _analyze_drawdown, lines 329-360
\* the loop of lines 341-352 from index i on, indices counted from 0 as by
\* enumerate; start = -1 stands for None
RECURSIVE DrawdownPeriodScan(_, _, _, _)
DrawdownPeriodScan(drawdown, i, start_idx, drawdown_periods) ==
    IF i >= Len(drawdown) THEN drawdown_periods
    ELSE IF drawdown[i + 1] < 0 /\ start_idx = 0 - 1
         THEN DrawdownPeriodScan(drawdown, i + 1, i, drawdown_periods)
    ELSE IF ~(drawdown[i + 1] < 0) /\ start_idx # 0 - 1
         THEN DrawdownPeriodScan(drawdown, i + 1, 0 - 1,
                  Append(drawdown_periods,
                         [start |-> start_idx, end |-> i - 1, duration |-> i - start_idx,
                          depth |-> MinOf({drawdown[k + 1] : k \in start_idx..(i - 1)})]))
    ELSE DrawdownPeriodScan(drawdown, i + 1, start_idx, drawdown_periods)

\* lines 336-352
DrawdownPeriods(profits) == DrawdownPeriodScan(Drawdown(profits), 0, 0 - 1, <<>>)

\* _analyze_drawdown, lines 329-360; periods is the local list whose length
\* is returned
DrawdownAnalysis(profits) ==
    [max_drawdown |-> MaxDrawdown(profits),
     periods |-> DrawdownPeriods(profits),
     drawdown_periods |-> Len(DrawdownPeriods(profits)),
     current_drawdown |-> Drawdown(profits)[Len(profits)]]

\* the loop body with a break-even trade counted as a loss
StreakStepMutant(before, profit) ==
    IF profit <= 0
    THEN [consecutive_losses |-> before.consecutive_losses + 1,
          max_consecutive_losses |->
              MaxOf({before.max_consecutive_losses, before.consecutive_losses + 1})]
    ELSE [before EXCEPT !.consecutive_losses = 0]

\* the loop body of analysis_engine.py lines 313-318 and of
\* insight_generator.py lines 187-192
StreakStep(before, profit) ==
    IF profit < 0
    THEN [consecutive_losses |-> before.consecutive_losses + 1,
          max_consecutive_losses |->
              MaxOf({before.max_consecutive_losses, before.consecutive_losses + 1})]
    ELSE [before EXCEPT !.consecutive_losses = 0]

\* the loop of analysis_engine.py lines 309-318 and of insight_generator.py
\* lines 183-192
RECURSIVE StreakScan(_)
StreakScan(profits) ==
    IF profits = <<>> THEN [consecutive_losses |-> 0, max_consecutive_losses |-> 0]
    ELSE StreakStep(StreakScan(SubSeq(profits, 1, Len(profits) - 1)), profits[Len(profits)])

\* _calculate_basic_risk_metrics, lines 298-327: the loss streak
BasicRiskMetrics(profits) ==
    [max_consecutive_losses |-> StreakScan(profits).max_consecutive_losses]

\* _generate_risk_insights, insight_generator.py lines 172-192: the loss streak
RiskInsightStreak(profits) ==
    [max_consecutive_losses |-> StreakScan(profits).max_consecutive_losses]

NoMetrics ==
    [engine |-> [total_trades |-> 0, winning_trades |-> 0, losing_trades |-> 0,
                 win_rate |-> 0, profit_factor |-> Zero, profit_factor_reported |-> Zero,
                 sharpe_ratio |-> Zero, recovery_factor |-> Zero, max_drawdown |-> 0],
     summary |-> [total_trades |-> 0, winning_trades |-> 0, losing_trades |-> 0,
                  win_rate |-> [num |-> 0, den |-> 1], profit_factor |-> Zero],
     drawdown |-> [max_drawdown |-> 0, periods |-> <<>>, drawdown_periods |-> 0,
                   current_drawdown |-> 0],
     risk_adjusted |-> [sharpe_ratio |-> Zero, sortino_ratio |-> Zero, calmar_ratio |-> Zero],
     basic_risk |-> [max_consecutive_losses |-> 0],
     risk_insights |-> [max_consecutive_losses |-> 0]]

PerfEngine ==
    /\ "idle" \notin apc /\ "engine" \notin apc
    /\ ametrics' = [ametrics EXCEPT !.engine = PerformanceMetrics(aprofits)]
    /\ apc' = apc \cup {"engine"}
    /\ UNCHANGED aprofits
    /\ UNCHANGED exceptPerf

PerfSummary ==
    /\ "idle" \notin apc /\ "summary" \notin apc
    /\ ametrics' = [ametrics EXCEPT !.summary = SummaryStats(aprofits)]
    /\ apc' = apc \cup {"summary"}
    /\ UNCHANGED aprofits
    /\ UNCHANGED exceptPerf

PerfDrawdown ==
    /\ "idle" \notin apc /\ "drawdown" \notin apc
    /\ ametrics' = [ametrics EXCEPT !.drawdown = DrawdownAnalysis(aprofits)]
    /\ apc' = apc \cup {"drawdown"}
    /\ UNCHANGED aprofits
    /\ UNCHANGED exceptPerf

PerfRiskAdjusted ==
    /\ "idle" \notin apc /\ "risk_adjusted" \notin apc
    /\ ametrics' = [ametrics EXCEPT !.risk_adjusted = RiskAdjustedReturns(aprofits)]
    /\ apc' = apc \cup {"risk_adjusted"}
    /\ UNCHANGED aprofits
    /\ UNCHANGED exceptPerf

PerfBasicRisk ==
    /\ "idle" \notin apc /\ "basic_risk" \notin apc
    /\ ametrics' = [ametrics EXCEPT !.basic_risk = BasicRiskMetrics(aprofits)]
    /\ apc' = apc \cup {"basic_risk"}
    /\ UNCHANGED aprofits
    /\ UNCHANGED exceptPerf

PerfRiskInsights ==
    /\ "idle" \notin apc /\ "risk_insights" \notin apc
    /\ ametrics' = [ametrics EXCEPT !.risk_insights = RiskInsightStreak(aprofits)]
    /\ apc' = apc \cup {"risk_insights"}
    /\ UNCHANGED aprofits
    /\ UNCHANGED exceptPerf

NextPerf ==
    \/ PerfEngine \/ PerfSummary \/ PerfDrawdown \/ PerfRiskAdjusted
    \/ PerfBasicRisk \/ PerfRiskInsights

-----------------------------------------------------------------------------
(* Risk assessment plugin: Plugin.analyze, plugin.py lines 38-77           *)

\* plugin.py line 56
MinPluginTrades == 10

MaxPluginTrades == 10

\* longest alternation of profit values in a profit column handed to the plugin
MaxRuns == 3

PluginValues == {0 - 2, 0 - 1, 0, 1}

\* run lengths of a column of MinPluginTrades - 1 to most profits
RunLengths(r, most) ==
    {c \in [1..r -> 1..most] :
        LET total == SumOf(c) IN total >= MinPluginTrades - 1 /\ total <= most}

RunValues(r) == {v \in [1..r -> PluginValues] : \A i \in 1..(r - 1) : v[i] # v[i + 1]}

RECURSIVE Runs(_, _)
Runs(v, c) ==
    IF v = <<>> THEN <<>>
    ELSE [i \in 1..Head(c) |-> Head(v)] \o Runs(Tail(v), Tail(c))

\* the profit columns of at most that many trades
PluginProfitLists(most) ==
    UNION {{Runs(v, c) : v \in RunValues(r), c \in RunLengths(r, most)} : r \in 1..MaxRuns}

\* 1 / (risk_free_rate / 252) for the risk_free_rate 0.02 of plugin.py line 26
RiskFreePeriods == 12600

\* excess_returns.mean(), plugin.py lines 260-261
ExcessMean(profits) ==
    Frac(RiskFreePeriods * SumOf(profits) - Len(profits), RiskFreePeriods * Len(profits))

\* plugin.py line 261
PluginSharpe(profits) ==
    IF ~IsZero(Std(profits)) THEN Divide(ExcessMean(profits), Std(profits)) ELSE Zero

\* plugin.py lines 264-266
PluginSortino(profits) ==
    IF ~IsZero(DownsideDeviation(profits))
    THEN Divide(ExcessMean(profits), DownsideDeviation(profits)) ELSE Zero

\* plugin.py lines 269-273
PluginCalmar(profits) ==
    IF Abs(MaxDrawdown(profits)) # 0
    THEN Divide(Mean(profits), Frac(Abs(MaxDrawdown(profits)), 1)) ELSE Zero

\* plugin.py lines 276-278
InformationRatio(profits) ==
    IF ~IsZero(Std(profits)) THEN Divide(Mean(profits), Std(profits)) ELSE Zero

\* Plugin._calculate_risk_adjusted_returns, plugin.py lines 254-287
PluginRiskAdjusted(profits) ==
    [sharpe_ratio |-> PluginSharpe(profits),
     sortino_ratio |-> PluginSortino(profits),
     calmar_ratio |-> PluginCalmar(profits),
     information_ratio |-> InformationRatio(profits)]

\* the loop of plugin.py lines 309-318 over the profits read so far
RECURSIVE LossRunScan(_)
LossRunScan(profits) ==
    IF profits = <<>>
    THEN [consecutive_losses |-> 0, max_consecutive_losses |-> 0,
          loss_runs |-> <<>>, current_run |-> 0]
    ELSE LET s == LossRunScan(SubSeq(profits, 1, Len(profits) - 1))
             profit == profits[Len(profits)]
         IN IF profit < 0
            THEN [s EXCEPT !.current_run = s.current_run + 1,
                           !.consecutive_losses = s.consecutive_losses + 1,
                           !.max_consecutive_losses =
                               Max2(s.max_consecutive_losses, s.consecutive_losses + 1)]
            ELSE [s EXCEPT !.loss_runs = IF s.current_run > 0
                                         THEN Append(s.loss_runs, s.current_run)
                                         ELSE s.loss_runs,
                           !.current_run = 0,
                           !.consecutive_losses = 0]

\* Plugin._analyze_tail_risk, plugin.py lines 289-330: the loss-run figures
TailRisk(profits) ==
    LET s == LossRunScan(profits)
    IN [max_consecutive_losses |-> s.max_consecutive_losses,
        avg_loss_run_length |-> IF s.loss_runs # <<>> THEN Mean(s.loss_runs) ELSE Zero,
        total_loss_runs |-> Len(s.loss_runs)]

\* self.monte_carlo_simulations, plugin.py line 28
MonteCarloSimulations == 10000

\* NumPy's global random state: seeded from the system when the process
\* starts
ProcessRandomState == [seed |-> "system", drawn |-> 0]

\* Plugin._monte_carlo_simulation, plugin.py lines 220-229: np.random.seed(42)
\* and monte_carlo_simulations draws from the global state
MonteCarloRandomState(state) == [seed |-> "42", drawn |-> MonteCarloSimulations]

NoPluginResult ==
    [error |-> FALSE,
     risk_adjusted_returns |-> [sharpe_ratio |-> Zero, sortino_ratio |-> Zero,
                                calmar_ratio |-> Zero, information_ratio |-> Zero],
     tail_risk |-> [max_consecutive_losses |-> 0, avg_loss_run_length |-> Zero,
                    total_loss_runs |-> 0]]

\* Plugin.analyze, plugin.py lines 38-77
PluginAnalyze ==
    /\ qpc = "start"
    /\ qresult' = IF Len(qprofits) < MinPluginTrades
                  THEN [NoPluginResult EXCEPT !.error = TRUE]
                  ELSE [error |-> FALSE,
                        risk_adjusted_returns |-> PluginRiskAdjusted(qprofits),
                        tail_risk |-> TailRisk(qprofits)]
    /\ qrng' = IF Len(qprofits) < MinPluginTrades THEN qrng
               ELSE MonteCarloRandomState(qrng)
    /\ qpc' = "done"
    /\ UNCHANGED qprofits
    /\ UNCHANGED exceptPlugin

NextPlugin == PluginAnalyze

-----------------------------------------------------------------------------
(* Trading sessions: AnalysisEngine._get_trading_session and               *)
(* MLPipeline._get_trading_session over the open hours of a data set       *)

MaxHours == 2

\* Timestamp.hour
Hours == 0..23

HourLists == UNION {[1..n -> Hours] : n \in 1..MaxHours}

\* self.trading_sessions, analysis_engine.py lines 22-27, in dictionary order
EngineSessions ==
    << [name |-> "Sydney", start |-> 21, end |-> 6],
       [name |-> "Tokyo", start |-> 23, end |-> 8],
       [name |-> "London", start |-> 7, end |-> 16],
       [name |-> "New York", start |-> 12, end |-> 21] >>

\* sessions, ml_pipeline.py lines 223-228, in dictionary order
PipelineSessions ==
    << [name |-> "Sydney", start |-> 21, end |-> 6],
       [name |-> "Tokyo", start |-> 23, end |-> 8],
       [name |-> "London", start |-> 7, end |-> 16],
       [name |-> "New York", start |-> 12, end |-> 21] >>

\* the window test with the closing hour inside the window
InSessionMutant(times, hour) ==
    IF times.start > times.end
    THEN hour >= times.start \/ hour <= times.end
    ELSE times.start <= hour /\ hour <= times.end

\* lines 201-206 (ml_pipeline.py lines 233-238)
InSession(times, hour) ==
    IF times.start > times.end
    THEN hour >= times.start \/ hour < times.end
    ELSE times.start <= hour /\ hour < times.end

\* the loop of lines 198-208 (ml_pipeline.py lines 230-240)
RECURSIVE FirstSession(_, _)
FirstSession(sessions, hour) ==
    IF sessions = <<>> THEN "Other"
    ELSE IF InSession(Head(sessions), hour) THEN Head(sessions).name
    ELSE FirstSession(Tail(sessions), hour)

\* AnalysisEngine._get_trading_session, lines 195-208
EngineTradingSession(hour) == FirstSession(EngineSessions, hour)

\* MLPipeline._get_trading_session, ml_pipeline.py lines 220-240
PipelineTradingSession(hour) == FirstSession(PipelineSessions, hour)

NoSessions == [engine |-> <<>>, pipeline |-> <<>>]

\* _trades_to_dataframe, line 191: df['hour'].apply(self._get_trading_session)
SessionEngine ==
    /\ "idle" \notin spc /\ "engine" \notin spc
    /\ ssessions' = [ssessions EXCEPT
                         !.engine = [i \in DOMAIN shours |-> EngineTradingSession(shours[i])]]
    /\ spc' = spc \cup {"engine"}
    /\ UNCHANGED shours
    /\ UNCHANGED exceptSession

\* _prepare_features, ml_pipeline.py lines 151-185: the session of every trade
SessionPipeline ==
    /\ "idle" \notin spc /\ "pipeline" \notin spc
    /\ ssessions' = [ssessions EXCEPT
                         !.pipeline = [i \in DOMAIN shours |-> PipelineTradingSession(shours[i])]]
    /\ spc' = spc \cup {"pipeline"}
    /\ UNCHANGED shours
    /\ UNCHANGED exceptSession

NextSession == SessionEngine \/ SessionPipeline

-----------------------------------------------------------------------------
(* InsightGenerator: the ranking of lines 54-57 and 404-414 as a function  *)
(* of the list of insights it is applied to.  Confidence is in hundredths  *)
(* and a priority score in thousandths.                                    *)

\* Insight(...): line is the line of the constructor call
Insight(line, type, confidence, impact) ==
    [line |-> line, type |-> type, confidence |-> confidence, impact |-> impact]

\* the insights of lines 59-384 in the order in which they are appended
InsightTemplates ==
    << Insight(68, "critical", 90, "high"),
       Insight(80, "success", 85, "medium"),
       Insight(95, "warning", 80, "high"),
       Insight(112, "warning", 75, "medium"),
       Insight(142, "info", 70, "medium"),
       Insight(160, "info", 65, "low"),
       Insight(195, "warning", 80, "high"),
       Insight(214, "critical", 90, "high"),
       Insight(254, "success", 75, "medium"),
       Insight(267, "warning", 70, "medium"),
       Insight(303, "info", 65, "medium"),
       Insight(320, "warning", 70, "medium"),
       Insight(348, "info", 60, "medium"),
       Insight(372, "info", 65, "low") >>

\* the lists the six rule groups append when each of them returns: every
\* insight at most once, in this order, and not both of line 68 and line 80
\* (if / elif on win_rate)
GeneratedLists(templates) ==
    {SelectSeq(templates, LAMBDA t : t.line \in chosen) :
         chosen \in {c \in SUBSET {templates[i].line : i \in DOMAIN templates} :
                         ~({68, 80} \subseteq c)}}

\* impact_weights.get(impact, 1), line 407
ImpactWeight(impact) ==
    CASE impact = "high" -> 3 [] impact = "medium" -> 2 [] impact = "low" -> 1 [] OTHER -> 1

\* type_weights.get(type, 1), line 408
TypeWeight(type) ==
    CASE type = "critical" -> 4 [] type = "warning" -> 3 [] type = "info" -> 2
      [] type = "success" -> 1 [] OTHER -> 1

\* _calculate_priority_score, lines 404-414, times 1000
PriorityScore(insight) ==
    400 * ImpactWeight(insight.impact) + 300 * TypeWeight(insight.type) + 3 * insight.confidence

\* an insertion that puts the insight before those of equal score
InsertByPriorityMutant(sorted, insight) ==
    LET k == Cardinality({i \in DOMAIN sorted : PriorityScore(sorted[i]) > PriorityScore(insight)})
    IN SubSeq(sorted, 1, k) \o <<insight>> \o SubSeq(sorted, k + 1, Len(sorted))

\* list.sort(key, reverse=True) is stable: an insight goes behind the
\* earlier ones of greater or equal score
InsertByPriority(sorted, insight) ==
    LET k == Cardinality({i \in DOMAIN sorted : PriorityScore(sorted[i]) >= PriorityScore(insight)})
    IN SubSeq(sorted, 1, k) \o <<insight>> \o SubSeq(sorted, k + 1, Len(sorted))

\* insights.sort(key=..., reverse=True), line 55
RECURSIVE SortByPriority(_)
SortByPriority(insights) ==
    IF insights = <<>> THEN <<>>
    ELSE InsertByPriority(SortByPriority(SubSeq(insights, 1, Len(insights) - 1)),
                          insights[Len(insights)])

\* generate_comprehensive_insights, lines 54-57: the sort and the return
InsightSortAndReturn ==
    /\ ipc = "generated"
    /\ ireturned' = SortByPriority(igenerated)
    /\ ipc' = "done"
    /\ UNCHANGED igenerated
    /\ UNCHANGED exceptInsight

NextInsight == InsightSortAndReturn

(* generate_comprehensive_insights on a data set: the rule groups in the   *)
(* order of lines 30-52.  A TradingData has at least one trade             *)
(* (trading_data.py lines 110-114), so the frame of _trades_to_dataframe   *)
(* is never empty.                                                         *)

MaxDatasetTrades == 6

\* the insights of the given constructor lines, in the order of the source
InsightsAt(lines) == SelectSeq(InsightTemplates, LAMBDA t : t.line \in lines)

\* _generate_performance_insights, lines 59-124: win rate (if / elif),
\* profit factor, average win against average loss
GenPerformance ==
    /\ gpc = "performance"
    /\ \E chosen \in SUBSET {68, 80, 95, 112} :
           /\ ~({68, 80} \subseteq chosen)
           /\ ginsights' = ginsights \o InsightsAt(chosen)
    /\ gpc' = "time_pattern"
    /\ UNCHANGED <<gtrades, graised, gresponse>>
    /\ UNCHANGED exceptGenerate

\* _generate_time_pattern_insights, lines 126-172: the day-of-week insight
\* is appended for every non-empty frame
GenTimePattern ==
    /\ gpc = "time_pattern"
    /\ \E chosen \in {{160}, {142, 160}} :
           ginsights' = ginsights \o InsightsAt(chosen)
    /\ gpc' = "risk"
    /\ UNCHANGED <<gtrades, graised, gresponse>>
    /\ UNCHANGED exceptGenerate

\* _generate_risk_insights, lines 174-226: a streak of more than 5 losses
\* needs more than 5 trades
GenRisk ==
    /\ gpc = "risk"
    /\ \E chosen \in SUBSET {195, 214} :
           /\ 195 \in chosen => gtrades > 5
           /\ ginsights' = ginsights \o InsightsAt(chosen)
    /\ gpc' = "symbol"
    /\ UNCHANGED <<gtrades, graised, gresponse>>
    /\ UNCHANGED exceptGenerate

\* the columns of df.groupby('symbol').agg({'profit': [...], 'profit': lambda}),
\* lines 238-241: the second 'profit' key of the dict display replaces the first
SymbolStatsColumns == <<"profit">>

\* line 243
SymbolStatsNames == <<"total_profit", "avg_profit", "trade_count", "win_rate">>

\* _generate_symbol_insights, lines 228-279: symbol_stats.columns = [...]
\* raises ValueError (length mismatch) unless the lengths agree; nothing
\* in generate_comprehensive_insights catches it
GenSymbol ==
    /\ gpc = "symbol"
    /\ IF Len(SymbolStatsColumns) # Len(SymbolStatsNames)
       THEN graised' = "ValueError" /\ gpc' = "raised"
       ELSE graised' = graised /\ gpc' = "behavioral"
    /\ UNCHANGED <<gtrades, ginsights, gresponse>>
    /\ UNCHANGED exceptGenerate

\* generate_insights, insights.py lines 22-41: any exception becomes HTTP 500
GenEndpointFails ==
    /\ gpc = "raised"
    /\ gresponse' = 500
    /\ gpc' = "failed"
    /\ UNCHANGED <<gtrades, ginsights, graised>>
    /\ UNCHANGED exceptGenerate

NextGenerate == GenPerformance \/ GenTimePattern \/ GenRisk \/ GenSymbol \/ GenEndpointFails

-----------------------------------------------------------------------------
(* MLPipeline and AnalysisEngine: the instances shared by all requests     *)
(* (analysis.py lines 22-23) and the invocations on them.  A data set is   *)
(* its number of trades and of profitable trades; an object assigned to an *)
(* instance field or written to a model file is named by the number of the *)
(* invocation that fitted it, 0 for none.                                  *)

MaxMLTrades == 45
MaxInvocations == 2

\* line 57
MinQuickTrades == 10

\* line 84
MinClusteringTrades == 5

\* line 113
MinClassificationTrades == 20

\* params.get('n_clusters', 5), line 90
DefaultClusters == 5

\* MLPipeline.__init__, lines 45-52: scalers, encoders and models are empty
NewMLPipeline ==
    [encoders |-> 0, scalers |-> [clustering |-> 0, classification |-> 0], models |-> 0]

\* what an invocation did: the error of the returned dictionary ("" for
\* none), the exception that left it, the number of clusters used, the
\* shared fields and files it assigned, the keys of the result and the
\* length of cv_scores
Outcome(error, raise, n_clusters, writes, keys, cv_len) ==
    [error |-> error, raised |-> raise, n_clusters |-> n_clusters, writes |-> writes,
     keys |-> keys, cv_len |-> cv_len]

Raised(exception, writes) == Outcome("", exception, 0, writes, {}, 0)

ErrorResult(message) == Outcome(message, "none", 0, {}, {"error"}, 0)

\* the columns of the frame of _prepare_features, lines 173-205, without
\* 'profit': the text columns stay in the frame next to their encodings
ClassificationColumns ==
    {[name |-> "hour", text |-> FALSE], [name |-> "day_of_week", text |-> TRUE],
     [name |-> "size", text |-> FALSE], [name |-> "duration_minutes", text |-> FALSE],
     [name |-> "pips", text |-> FALSE], [name |-> "session", text |-> TRUE],
     [name |-> "symbol", text |-> TRUE], [name |-> "type", text |-> TRUE],
     [name |-> "commission", text |-> FALSE], [name |-> "swap", text |-> FALSE],
     [name |-> "day_of_week_encoded", text |-> FALSE], [name |-> "session_encoded", text |-> FALSE],
     [name |-> "symbol_encoded", text |-> FALSE], [name |-> "type_encoded", text |-> FALSE]}

\* StandardScaler.fit_transform raises ValueError on a column of strings
ScalerRaises(columns) == \E c \in columns : c.text

\* silhouette_score raises ValueError unless 2 <= labels <= samples - 1
SilhouetteRaises(labels, samples) == labels < 2 \/ labels > samples - 1

\* the test of line 84 with the minimum itself refused
TooFewForClusteringMutant(n) == n <= MinClusteringTrades

\* line 84
TooFewForClustering(n) == n < MinClusteringTrades

\* line 113
TooFewForClassification(n) == n < MinClassificationTrades

\* _run_kmeans_clustering, lines 289-317, after _prepare_features: labels
\* is the number of distinct clusters KMeans finds, 1 for equal rows
KMeansOutcome(n, n_clusters, labels) ==
    IF n_clusters > n THEN Raised("ValueError", {"encoders", "scalers.clustering"})
    ELSE IF SilhouetteRaises(labels, n) THEN Raised("ValueError", {"encoders", "scalers.clustering"})
    ELSE Outcome("", "none", n_clusters,
                 {"encoders", "scalers.clustering", "kmeans_model.joblib"},
                 {"n_clusters", "silhouette_score", "inertia", "algorithm", "cluster_analysis",
                  "trade_clusters"}, 0)

\* run_clustering_analysis, lines 81-108: n_clusters = 0 stands for a
\* request without the parameter
ClusteringOutcomes(n, algorithm, n_clusters) ==
    IF TooFewForClustering(n)
    THEN {ErrorResult("Insufficient data for clustering (minimum 5 trades required)")}
    ELSE IF algorithm = "kmeans"
    THEN LET k == IF n_clusters = 0 THEN DefaultClusters ELSE n_clusters
         IN {KMeansOutcome(n, k, labels) : labels \in {1, k}}
    ELSE IF algorithm = "dbscan"
    THEN {Outcome("DBSCAN found less than 2 clusters. Try adjusting parameters.", "none", 0,
                  {"encoders"}, {"error", "trade_clusters"}, 0),
          Outcome("", "none", 2, {"encoders"},
                  {"n_clusters", "silhouette_score", "n_noise", "eps", "min_samples",
                   "algorithm", "cluster_analysis", "trade_clusters"}, 0)}
    ELSE {Outcome("Unknown clustering algorithm", "none", 0, {"encoders"}, {"error"}, 0)}

\* train_test_split(test_size=0.2, stratify=y), line 422: the size of the
\* training part
TrainSize(n) == n - ((n + 4) \div 5)

\* _train_classification_model, lines 418-471
TrainClassificationModel(n, winners, use_cv) ==
    IF (winners > 0 /\ winners < 2) \/ (n - winners > 0 /\ n - winners < 2)
    THEN Raised("ValueError", {"encoders"})
    ELSE IF ScalerRaises(ClassificationColumns) THEN Raised("ValueError", {"encoders"})
    ELSE IF ~(use_cv /\ TrainSize(n) > 10)
    THEN Raised("AttributeError", {"encoders", "scalers.classification", "models", "model file"})
    ELSE Outcome("", "none", 0,
                 {"encoders", "scalers.classification", "models", "model file"},
                 {"model", "model_type", "train_accuracy", "test_accuracy", "cv_scores", "cv_mean",
                  "cv_std", "classification_report", "accuracy"},
                 IF 5 <= TrainSize(n) \div 2 THEN 5 ELSE TrainSize(n) \div 2)

\* run_classification_analysis, lines 110-149
ClassificationOutcome(n, winners, use_cv) ==
    IF TooFewForClassification(n)
    THEN ErrorResult("Insufficient data for classification (minimum 20 trades required)")
    ELSE TrainClassificationModel(n, winners, use_cv)

\* _quick_clustering, lines 252-253 taking every fifth of the samples
QuickClustersMutant(n_samples) == n_samples \div 5

\* _quick_clustering, lines 256-258: min(max(2, n_samples // 5), 8)
QuickClusters(n_samples) ==
    LET floor == IF n_samples \div 5 >= 2 THEN n_samples \div 5 ELSE 2
    IN IF floor <= 8 THEN floor ELSE 8

\* run_quick_analysis, lines 54-79
QuickOutcomes(n) ==
    IF n < MinQuickTrades
    THEN {ErrorResult("Insufficient data for ML analysis (minimum 10 trades required)")}
    ELSE {IF SilhouetteRaises(labels, n) THEN Raised("ValueError", {"encoders"})
          ELSE Outcome("", "none", QuickClusters(n), {"encoders"},
                       {"clustering", "anomalies"}
                           \cup (IF n >= 20 THEN {"feature_importance"} ELSE {}), 0)
          : labels \in {1, QuickClusters(n)}}

\* the numbers of profitable trades tried for a data set of n trades
WinnerCounts(n) == {0, 1, 2, n - 2, n - 1, n} \cap 0..n

NoInvocation ==
    [kind |-> "none", n |-> 0, winners |-> 0, algorithm |-> "", n_clusters |-> 0,
     cross_validation |-> FALSE, out |-> Outcome("", "none", 0, {}, {}, 0)]

\* the instance after an invocation that assigned the given fields
SelfAfter(self, writes, call) ==
    [encoders |-> IF "encoders" \in writes THEN call ELSE self.encoders,
     scalers |-> [clustering |-> IF "scalers.clustering" \in writes THEN call
                                 ELSE self.scalers.clustering,
                  classification |-> IF "scalers.classification" \in writes THEN call
                                     ELSE self.scalers.classification],
     models |-> IF "models" \in writes THEN call ELSE self.models]

\* the model files after an invocation: joblib.dump, lines 309-310, 454-455
FilesAfter(files, writes, call) ==
    {f \in files : f[1] \notin writes}
    \cup {<<name, call>> : name \in writes \cap {"kmeans_model.joblib", "model file"}}

Invocation(kind, algorithm, n_clusters, cross_validation, out) ==
    [kind |-> kind, n |-> mtrades, winners |-> mwinners, algorithm |-> algorithm,
     n_clusters |-> n_clusters, cross_validation |-> cross_validation, out |-> out]

\* the fields and files the invocation recorded in mlast' assigned
SharedStateAfter ==
    /\ mcalls' = mcalls + 1
    /\ mself' = SelfAfter(mself, mlast'.out.writes, mcalls + 1)
    /\ mfiles' = FilesAfter(mfiles, mlast'.out.writes, mcalls + 1)
    /\ UNCHANGED <<mpc, mtrades, mwinners>>

\* run_clustering_analysis
MLClustering ==
    /\ mpc = "ready" /\ mcalls < MaxInvocations
    /\ \E algorithm \in {"kmeans", "dbscan", "spectral"}, n_clusters \in {0, 3} :
           \E out \in ClusteringOutcomes(mtrades, algorithm, n_clusters) :
               mlast' = Invocation("clustering", algorithm, n_clusters, FALSE, out)
    /\ SharedStateAfter
    /\ UNCHANGED exceptML

\* run_classification_analysis
MLClassification ==
    /\ mpc = "ready" /\ mcalls < MaxInvocations
    /\ \E use_cv \in BOOLEAN :
           mlast' = Invocation("classification", "", 0, use_cv,
                               ClassificationOutcome(mtrades, mwinners, use_cv))
    /\ SharedStateAfter
    /\ UNCHANGED exceptML

\* run_quick_analysis
MLQuickAnalysis ==
    /\ mpc = "ready" /\ mcalls < MaxInvocations
    /\ \E out \in QuickOutcomes(mtrades) :
           mlast' = Invocation("quick", "kmeans", 0, FALSE, out)
    /\ SharedStateAfter
    /\ UNCHANGED exceptML

\* AnalysisEngine.analyze_time_patterns, analyze_risk_metrics and
\* calculate_performance_metrics: they assign no field of the engine
MLEngineAnalysis ==
    /\ mpc = "ready" /\ mcalls < MaxInvocations
    /\ \E kind \in {"time_patterns", "risk_metrics", "performance"} :
           mlast' = Invocation(kind, "", 0, FALSE, Outcome("", "none", 0, {}, {"metrics"}, 0))
    /\ SharedStateAfter
    /\ UNCHANGED exceptML

NextML == MLClustering \/ MLClassification \/ MLQuickAnalysis \/ MLEngineAnalysis

-----------------------------------------------------------------------------
(* DataProcessor._extract_trades and _extract_metadata, and the consistency *)
(* checks of the validator on what they return.  Times are in days.         *)

MaxRows == 3
MaxDay == 4

\* pandas' NaT in the close_time column
NaT == 0

\* a row of the cleaned frame: _remove_invalid_trades keeps rows with an
\* open_time; the close_time is NaT for a trade still open and not before
\* the open_time otherwise
FrameRows(days) ==
    UNION {{[open_time |-> o, close_time |-> c] : c \in {NaT} \cup o..days} : o \in 1..days}

CleanedFrames(rows, days) == UNION {[1..n -> FrameRows(days)] : n \in 0..rows}

NoFrame == <<>>

NoDataset == [tk |-> "list", trades |-> <<>>, mk |-> "absent", metadata |-> <<>>]

\* _extract_trades, lines 290-316: the times of a row as ISO text, None for NaT
ExtractTrade(row) ==
    With(With(BaseClosed, "open_time", Iso(row.open_time)),
         "close_time", IF row.close_time = NaT THEN Null ELSE Iso(row.close_time))

ExtractTrades(df) == [i \in DOMAIN df |-> ExtractTrade(df[i])]

\* line 329: df['open_time'].min()
DateRangeStart(df) ==
    IF df = <<>> THEN Null ELSE Iso(MinOf({df[i].open_time : i \in DOMAIN df}))

\* line 330: df['close_time'].max() if any close_time is set, else
\* df['open_time'].max()
DateRangeEnd(df) ==
    LET closed == {i \in DOMAIN df : df[i].close_time # NaT} IN
    IF closed # {} THEN Iso(MaxOf({df[i].close_time : i \in closed}))
    ELSE IF df = <<>> THEN Null
    ELSE Iso(MaxOf({df[i].open_time : i \in DOMAIN df}))

\* _extract_metadata, lines 318-343
ExtractMetadata(df) ==
    [source |-> Str(<<"M","T","5">>), account |-> Str(<<"u">>), currency |-> Str(<<"U","S","D">>),
     leverage |-> Num(100), total_trades |-> Num(Len(df)),
     date_range |-> [k |-> "dict", start |-> DateRangeStart(df), end |-> DateRangeEnd(df)]]

\* process_file, lines 74-81: the trades and the metadata of the cleaned frame
ExtractProcessFile ==
    /\ xpc = "cleaned"
    /\ xdata' = [tk |-> "list", trades |-> ExtractTrades(xframe),
                 mk |-> "dict", metadata |-> ExtractMetadata(xframe)]
    /\ xpc' = "returned"
    /\ UNCHANGED <<xframe, xerrors, xraised>>
    /\ UNCHANGED exceptExtract

\* _validate_consistency, lines 195-234, on the returned data set
ExtractValidateConsistency ==
    /\ xpc = "returned"
    /\ xerrors' = ValidateConsistencyErrors(xdata)
    /\ xraised' = ValidateConsistencyExc(xdata)
    /\ xpc' = "validated"
    /\ UNCHANGED <<xframe, xdata>>
    /\ UNCHANGED exceptExtract

NextExtract == ExtractProcessFile \/ ExtractValidateConsistency

-----------------------------------------------------------------------------
(* EventManager, event_system.py: subscribe and emit for one event type.    *)
(* emit is a coroutine: tasks that call it interleave where it awaits an    *)
(* asynchronous handler, and nowhere else.                                  *)

MaxSubscriptions == 2
MaxEmitTasks == 2
MaxEmitCalls == 3

EmitTasks == 1..MaxEmitTasks

\* a handler: a plain function or a coroutine function that suspends before
\* it returns, and whether it raises
Handlers(names) == [name : names, kind : {"sync", "async"}, raises : BOOLEAN]

\* EventSubscription, lines 34-41, with the default priority and no filter
EventSubscription(handler, once) == [handler |-> handler, once |-> once]

\* _stats, lines 52-56, and the length of _event_history
NewStats == [events_emitted |-> 0, events_handled |-> 0, errors |-> 0, history |-> 0]

NoExecutions == [started |-> 0, completed |-> 0]

\* an emit call that is not running
IdleEmit == [pc |-> "idle", filtered |-> <<>>, at |-> 0, to_remove |-> <<>>, handlers_executed |-> 0]

\* list.remove(x) after `x in list`: the first equal element goes
RemoveFirst(subs, sub) ==
    IF \E i \in DOMAIN subs : subs[i] = sub
    THEN LET k == CHOOSE i \in DOMAIN subs : subs[i] = sub /\ \A j \in 1..(i - 1) : subs[j] # sub
         IN SubSeq(subs, 1, k - 1) \o SubSeq(subs, k + 1, Len(subs))
    ELSE subs

\* lines 207-208 with _remove_subscription, lines 338-348
RECURSIVE RemoveSubscriptions(_, _)
RemoveSubscriptions(subs, to_remove) ==
    IF to_remove = <<>> THEN subs
    ELSE RemoveSubscriptions(RemoveFirst(subs, Head(to_remove)), Tail(to_remove))

\* lines 198-204 and the except clause, lines 203-205: what follows the call
\* of a handler; a one-time subscription is kept for removal after the loop
\* when the handler returned
AfterHandler(st, t) ==
    LET task == st.tasks[t]
        sub == task.filtered[task.at]
        h == sub.handler
        done == [st.exec EXCEPT ![h.name].completed = @ + 1]
    IN IF h.raises
       THEN [st EXCEPT !.exec = done, !.stats.errors = @ + 1, !.tasks[t].at = @ + 1]
       ELSE [st EXCEPT !.exec = done, !.stats.events_handled = @ + 1,
                       !.tasks[t].handlers_executed = @ + 1,
                       !.tasks[t].to_remove = IF sub.once THEN Append(@, sub) ELSE @,
                       !.tasks[t].at = @ + 1]

\* lines 181-212: the loop over the filtered subscriptions from position
\* `at` up to the next await that suspends, or through the clean-up and the
\* return
RECURSIVE ExecuteHandlers(_, _)
ExecuteHandlers(st, t) ==
    LET task == st.tasks[t] IN
    IF task.at > Len(task.filtered)
    THEN [st EXCEPT !.subs = RemoveSubscriptions(@, task.to_remove),
                    !.stats.events_emitted = @ + 1,
                    !.tasks[t] = IdleEmit]
    ELSE LET h == task.filtered[task.at].handler
             called == [st EXCEPT !.exec[h.name].started = @ + 1]
         IN IF h.kind = "async"
            THEN [called EXCEPT !.tasks[t].pc = "awaiting"]
            ELSE ExecuteHandlers(AfterHandler(called, t), t)

EventState == [subs |-> esubs, tasks |-> etasks, exec |-> eexec, stats |-> estats]

\* subscribe, lines 59-105: a handler not subscribed before
EventSubscribe ==
    /\ evpc = "ready"
    /\ Cardinality(eonce) + Cardinality(emany) < MaxSubscriptions
    /\ \E h \in Handlers({Cardinality(eonce) + Cardinality(emany) + 1}), once \in BOOLEAN :
          /\ esubs' = Append(esubs, EventSubscription(h, once))
          /\ eonce' = IF once THEN eonce \cup {h.name} ELSE eonce
          /\ emany' = IF once THEN emany ELSE emany \cup {h.name}
    /\ UNCHANGED <<evpc, etasks, eexec, estats, ecalls>>
    /\ UNCHANGED exceptEvent

\* emit, lines 134-212, called by a task: the event goes to the history, the
\* matching subscriptions are copied and the handlers run up to the first
\* await that suspends
EventEmit ==
    /\ evpc = "ready"
    /\ ecalls < MaxEmitCalls
    /\ \E t \in EmitTasks :
          /\ etasks[t].pc = "idle"
          /\ LET entered == [EventState EXCEPT !.stats.history = @ + 1,
                                               !.tasks[t].filtered = esubs,
                                               !.tasks[t].at = 1]
                 out == ExecuteHandlers(entered, t)
             IN /\ esubs' = out.subs
                /\ etasks' = out.tasks
                /\ eexec' = out.exec
                /\ estats' = out.stats
    /\ ecalls' = ecalls + 1
    /\ UNCHANGED <<evpc, eonce, emany>>
    /\ UNCHANGED exceptEvent

\* the awaited handler of a task returns or raises (line 194) and the loop
\* of its emit goes on
EventHandlerReturns ==
    /\ evpc = "ready"
    /\ \E t \in EmitTasks :
          /\ etasks[t].pc = "awaiting"
          /\ LET resumed == [EventState EXCEPT !.tasks[t].pc = "running"]
                 out == ExecuteHandlers(AfterHandler(resumed, t), t)
             IN /\ esubs' = out.subs
                /\ etasks' = out.tasks
                /\ eexec' = out.exec
                /\ estats' = out.stats
    /\ UNCHANGED <<evpc, eonce, emany, ecalls>>
    /\ UNCHANGED exceptEvent

NextEvent == EventSubscribe \/ EventEmit \/ EventHandlerReturns

-----------------------------------------------------------------------------
(* PluginManager.load_plugin and unload_plugin, plugin_manager.py: every    *)
(* plugin directory holds its own plugin.py, imported under the module name *)
(* "plugin".                                                                *)

MaxLoaderCalls == 4

\* the plugin directories that _find_plugin_path finds, lines 306-312
PluginDirectories == {"ctrader-plugin", "risk-assessment-plugin"}

\* the names load_plugin and unload_plugin are called with
RequestedPlugins == PluginDirectories \cup {"unknown-plugin"}

NotImported == "none"

NoPlugin == [class_of |-> "none", manifest |-> "none", status |-> "none"]

\* importlib.import_module("plugin"), line 214: the module that sys.modules
\* holds under that name if there is one, else plugin.py of the directory at
\* the head of sys.path, which is then kept in sys.modules
ImportModule(modules, directory) == IF modules = NotImported THEN directory ELSE modules

\* lines 221-231: an instance of the module's Plugin class with the manifest
\* of the requested plugin
ActivePlugin(module, plugin_name) ==
    [class_of |-> module, manifest |-> plugin_name, status |-> "active"]

\* load_plugin, lines 197-253; initialize may raise
LoaderLoadPlugin ==
    /\ lpc = "ready"
    /\ lcalls < MaxLoaderCalls
    /\ \E plugin_name \in RequestedPlugins, initialized \in BOOLEAN :
          IF plugin_name \notin PluginDirectories
          THEN /\ lreturned' = Append(lreturned, <<"load_plugin", plugin_name, FALSE>>)
               /\ UNCHANGED <<lmodules, lplugins, levents>>
          ELSE /\ lmodules' = ImportModule(lmodules, plugin_name)
               /\ IF initialized
                  THEN /\ lplugins' = [lplugins EXCEPT ![plugin_name] = ActivePlugin(lmodules', plugin_name)]
                       /\ levents' = Append(levents, <<"plugin_loaded", plugin_name>>)
                  ELSE /\ lplugins' = [lplugins EXCEPT ![plugin_name] =
                                           IF @ = NoPlugin THEN @ ELSE [@ EXCEPT !.status = "error"]]
                       /\ levents' = Append(levents, <<"plugin_error", plugin_name>>)
               /\ lreturned' = Append(lreturned, <<"load_plugin", plugin_name, initialized>>)
    /\ lcalls' = lcalls + 1
    /\ UNCHANGED lpc
    /\ UNCHANGED exceptLoader

\* unload_plugin, lines 255-271; cleanup may raise
LoaderUnloadPlugin ==
    /\ lpc = "ready"
    /\ lcalls < MaxLoaderCalls
    /\ \E plugin_name \in RequestedPlugins, cleaned \in BOOLEAN :
          IF plugin_name \notin PluginDirectories \/ lplugins[plugin_name] = NoPlugin
          THEN /\ lreturned' = Append(lreturned, <<"unload_plugin", plugin_name, FALSE>>)
               /\ UNCHANGED <<lplugins, levents>>
          ELSE /\ lplugins' = IF cleaned THEN [lplugins EXCEPT ![plugin_name] = NoPlugin] ELSE lplugins
               /\ levents' = IF cleaned THEN Append(levents, <<"plugin_unloaded", plugin_name>>) ELSE levents
               /\ lreturned' = Append(lreturned, <<"unload_plugin", plugin_name, cleaned>>)
    /\ lcalls' = lcalls + 1
    /\ UNCHANGED <<lpc, lmodules>>
    /\ UNCHANGED exceptLoader

NextLoader == LoaderLoadPlugin \/ LoaderUnloadPlugin

-----------------------------------------------------------------------------
(* Properties of the validator and the upload flow                         *)

ValidatorStages == {"_validate_structure", "_validate_trades", "_validate_metadata",
                    "_validate_consistency", "validate_trading_data"}

Parsed == data # NoData

StructureOk == Parsed /\ ValidateStructure(data) = <<>>

PastTrades == upc \notin {"idle", "start", "structure", "trades"}

Returned == result # NoResult

\* the messages of a list that concern trade i
OfTrade(msgs, i) == SelectSeq(msgs, LAMBDA e : e.stage = "trade" /\ e.trade = i)

OfStage(msgs, stage) == SelectSeq(msgs, LAMBDA e : e.stage = stage)

\* C1: a data set that passes the structural checks is validated to
\* completion; no exception leaves validate_trading_data, whatever the field
\* values of its trades are.
C1_ValidatorNeverRaises ==
    StructureOk => raised.at \notin ValidatorStages

\* C2: a blob is stored and the success response returned only when the
\* validation result has no errors, and a result without errors is never
\* answered with the validation rejection, with or without warnings.
C2_StoredOnlyWithoutErrors ==
    /\ (storage # {} \/ response = 200) => (Returned /\ result.errors = <<>>)
    /\ response = 200 => data \in storage
    /\ (Returned /\ result.errors = <<>>) => response # 422

C2_Witness ==
    /\ response = 200 /\ data \in storage
    /\ Returned /\ result.errors = <<>> /\ Len(result.warnings) > 0

\* C3: in every result of validate_trading_data, is_valid is true exactly
\* when the errors list is empty, however many warnings there are.
C3_ValidIffNoErrors ==
    Returned => (result.is_valid <=> result.errors = <<>>)

C3_Witness ==
    Returned /\ result.is_valid /\ Len(result.warnings) > 0

\* C5: for a trade whose symbol is missing, exactly one missing-field error
\* names symbol, and every other check of that trade and of the other trades
\* is carried out and reported.
C5_MissingSymbolReported ==
    \A i \in DOMAIN data.trades :
        (StructureOk /\ PastTrades /\ ~HasValue(data.trades[i]["symbol"])) =>
            /\ raised.at # "_validate_trades"
            /\ Len(SelectSeq(OfTrade(errors, i),
                   LAMBDA e : e.code = "missing_required_field" /\ e.field = "symbol")) = 1
            /\ \A j \in DOMAIN data.trades :
                   /\ OfTrade(errors, j) = TradeErrors(j, data.trades[j])
                   /\ OfTrade(warnings, j) = TradeWarnings(j, data.trades[j])

\* the data set with metadata.total_trades set to the number of trades
WithTradeCount(d) == [d EXCEPT !.metadata.total_trades = Num(Len(d.trades))]

\* validate_trading_data finds nothing wrong with d
FullyValid(d) ==
    /\ ValidateStructure(d) = <<>>
    /\ ValidateTradesExc(d.trades) = NoExc /\ ValidateConsistencyExc(d) = NoExc
    /\ ValidateTradesErrors(d.trades) = <<>>
    /\ ValidateMetadata(d.metadata) = <<>>
    /\ ValidateConsistencyErrors(d) = <<>>

CountMismatchCase ==
    /\ Parsed /\ Returned /\ data.tk = "list" /\ data.mk = "dict"
    /\ FullyValid(WithTradeCount(data))
    /\ data.metadata.total_trades # Num(Len(data.trades))
    /\ Has(data.metadata.total_trades)

\* C6: an otherwise valid data set whose metadata.total_trades differs from
\* the number of trades is invalid, with exactly one consistency error, the
\* one about the trade count.
C6_CountMismatchIsOneError ==
    CountMismatchCase =>
        /\ ~result.is_valid
        /\ OfStage(result.errors, "consistency")
             = <<Msg("consistency", 0, "total_trades_mismatch", "total_trades")>>

C6_Witness ==
    /\ CountMismatchCase
    /\ data.metadata.total_trades = Num(Len(data.trades) + 1)
    /\ result.errors = <<Msg("consistency", 0, "total_trades_mismatch", "total_trades")>>

\* C7: when a structural check fails, validate_trading_data still returns a
\* result; it is invalid and holds structural errors only.
C7_StructuralFailureReturns ==
    (Parsed /\ ValidateStructure(data) # <<>> /\ upc \in {"validated", "store", "failed", "done"}) =>
        /\ Returned /\ ~result.is_valid
        /\ \A j \in DOMAIN result.errors : result.errors[j].stage = "structure"
        /\ result.warnings = <<>>

-----------------------------------------------------------------------------
(* Properties of the normalizer, the pips and the performance metrics      *)

Standardized == npc \in {"clean", "done", "schema_failed", "clean_failed"}

MissingAfterMapping == {c \in Range(RequiredColumns) : c \notin Range(ncols)}

\* C4: when a required canonical field is absent from the table after the
\* column mapping, normalization fails with an error naming exactly the
\* missing fields, and the parse produces neither trades nor metadata.
C4_MissingColumnsFail ==
    (Standardized /\ MissingAfterMapping # {}) =>
        /\ npc = "schema_failed"
        /\ Range(nerror) = MissingAfterMapping
        /\ Len(nerror) = Cardinality(MissingAfterMapping)
        /\ nout = "none"

C4_Witness ==
    /\ npc = "schema_failed"
    /\ Cardinality(MissingAfterMapping) >= 2
    /\ cTicket \in Range(ncols)
    /\ Range(nerror) = MissingAfterMapping

PipSignOk(t, pips) ==
    /\ t.type = BuyStr => (pips > 0 <=> t.close_price > t.open_price)
    /\ t.type = SellStr => (pips > 0 <=> t.close_price < t.open_price)

\* C8: the pips of a trade with a close price are positive exactly when the
\* price moved in the trade's direction (up for buy, down for sell), in the
\* normalizer's computation and in the Trade model's recomputation.
C8_PipSign ==
    /\ ppc \in {"extracted", "loaded", "rejected"} => PipSignOk(ptrade, ppips.normalizer)
    /\ ppc = "loaded" => PipSignOk(ptrade, ppips.model)

C8_Witness ==
    /\ ppc = "loaded" /\ ptrade.type = SellStr
    /\ ptrade.close_price < ptrade.open_price
    /\ ppips.normalizer > 0 /\ ppips.model > 0

ZeroProfitTrades == Count(aprofits, LAMBDA x : x = 0)

CountsOk(m) ==
    /\ m.winning_trades + m.losing_trades <= m.total_trades
    /\ m.winning_trades + m.losing_trades + ZeroProfitTrades = m.total_trades

C10_DrawdownNonPositive ==
    /\ "engine" \in apc => ametrics.engine.max_drawdown <= 0
    /\ "drawdown" \in apc => ametrics.drawdown.max_drawdown <= 0

C10_Witness ==
    /\ {"engine", "drawdown"} \subseteq apc
    /\ ametrics.engine.max_drawdown < 0 /\ ametrics.drawdown.max_drawdown < 0
    /\ \E i \in DOMAIN aprofits : aprofits[i] > 0

HasLosingTrade == \E i \in DOMAIN aprofits : aprofits[i] < 0

\* |sum of winning profits / sum of losing profits| of the data set
ProfitRatio ==
    AbsRatio(Frac(SumOf(SelectSeq(aprofits, LAMBDA x : x > 0)),
                  SumOf(SelectSeq(aprofits, LAMBDA x : x < 0))))

\* C11: profit_factor is the +inf sentinel exactly when the data set has no
\* losing trade, and otherwise |sum of winning profits / sum of losing
\* profits|, in calculate_performance_metrics (whose result carries it
\* rounded to two decimals) and in get_summary_stats alike.
C11_ProfitFactorSentinel ==
    /\ "engine" \in apc =>
           /\ ametrics.engine.profit_factor = PosInf <=> ~HasLosingTrade
           /\ ametrics.engine.profit_factor_reported = PosInf <=> ~HasLosingTrade
           /\ HasLosingTrade =>
                  /\ ametrics.engine.profit_factor = ProfitRatio
                  /\ ametrics.engine.profit_factor_reported = Round2(ProfitRatio)
    /\ "summary" \in apc =>
           /\ ametrics.summary.profit_factor = PosInf <=> ~HasLosingTrade
           /\ HasLosingTrade => ametrics.summary.profit_factor = ProfitRatio
    /\ {"engine", "summary"} \subseteq apc =>
           ametrics.engine.profit_factor = ametrics.summary.profit_factor

\* both sides computed a finite factor that rounding changes, from wins and
\* losses
C11_Witness ==
    /\ {"engine", "summary"} \subseteq apc
    /\ ametrics.engine.profit_factor.k = "num"
    /\ ametrics.engine.profit_factor.num > 0
    /\ ametrics.summary.profit_factor = ametrics.engine.profit_factor
    /\ ametrics.engine.profit_factor_reported # ametrics.engine.profit_factor

(* Zero denominators of a profit column xs.  The standard deviation of two *)
(* or more equal profits is zero (that of a single profit is undefined);   *)
(* the downside deviation is zero without losses or with equal losses; the *)
(* maximum drawdown is zero when the cumulative profit never falls below   *)
(* an earlier value.                                                       *)
FlatReturns(xs) == Len(xs) >= 2 /\ \A i, j \in DOMAIN xs : xs[i] = xs[j]

FlatDownside(xs) ==
    \/ \A i \in DOMAIN xs : xs[i] >= 0
    \/ /\ Cardinality({i \in DOMAIN xs : xs[i] < 0}) >= 2
       /\ \A i, j \in DOMAIN xs : xs[i] < 0 /\ xs[j] < 0 => xs[i] = xs[j]

NoDrawdown(xs) ==
    \A i, j \in DOMAIN xs : j <= i => SumOf(SubSeq(xs, 1, j)) <= SumOf(SubSeq(xs, 1, i))

NoLosingTrade(xs) == \A i \in DOMAIN xs : xs[i] >= 0

Completed(x) == x.k # "ZeroDivisionError"

\* C12: for a non-empty data set every ratio whose denominator is zero is
\* its sentinel (+inf for profit factor and recovery factor, 0 for Sharpe,
\* Sortino, Calmar and information ratio) and no ratio computation raises,
\* in calculate_performance_metrics, get_summary_stats, the engine's
\* _calculate_risk_adjusted_returns and the plugin's.
C12_ZeroDenominatorSentinels ==
    /\ "engine" \in apc =>
           /\ NoLosingTrade(aprofits) => ametrics.engine.profit_factor = PosInf
           /\ FlatReturns(aprofits) => ametrics.engine.sharpe_ratio = Zero
           /\ NoDrawdown(aprofits) => ametrics.engine.recovery_factor = PosInf
           /\ Completed(ametrics.engine.profit_factor)
           /\ Completed(ametrics.engine.sharpe_ratio)
           /\ Completed(ametrics.engine.recovery_factor)
    /\ "summary" \in apc =>
           /\ NoLosingTrade(aprofits) => ametrics.summary.profit_factor = PosInf
           /\ Completed(ametrics.summary.profit_factor)
    /\ "risk_adjusted" \in apc =>
           /\ FlatReturns(aprofits) => ametrics.risk_adjusted.sharpe_ratio = Zero
           /\ FlatDownside(aprofits) => ametrics.risk_adjusted.sortino_ratio = Zero
           /\ NoDrawdown(aprofits) => ametrics.risk_adjusted.calmar_ratio = Zero
           /\ \A f \in DOMAIN ametrics.risk_adjusted : Completed(ametrics.risk_adjusted[f])
    /\ qpc = "done" /\ ~qresult.error =>
           LET r == qresult.risk_adjusted_returns
           IN /\ FlatReturns(qprofits) => r.sharpe_ratio = Zero /\ r.information_ratio = Zero
              /\ FlatDownside(qprofits) => r.sortino_ratio = Zero
              /\ NoDrawdown(qprofits) => r.calmar_ratio = Zero
              /\ \A f \in DOMAIN r : Completed(r[f])

\* a flat losing data set: zero deviation under a non-zero mean, with a
\* drawdown, through the engine's three computations
C12_Witness ==
    /\ {"engine", "summary", "risk_adjusted"} \subseteq apc
    /\ FlatReturns(aprofits) /\ aprofits[1] < 0
    /\ ametrics.engine.sharpe_ratio = Zero
    /\ ametrics.risk_adjusted.sortino_ratio = Zero
    /\ ametrics.risk_adjusted.calmar_ratio # Zero

\* the indicator headers of the two platforms
Mt5Indicators == {hTicket, hOpenTime, hCloseTime, hSymbol, hType}

Mt4Indicators == {hOrder, hTime, hItem, hType}

IndicatorScore(indicators, headers) == Cardinality(indicators \cap Range(headers))

\* the platform with the most indicator headers present, MT5 before MT4,
\* and the generic one when neither has three
ScoredPlatform(headers) ==
    IF /\ IndicatorScore(Mt5Indicators, headers) >= 3
       /\ IndicatorScore(Mt5Indicators, headers) >= IndicatorScore(Mt4Indicators, headers)
    THEN sMT5
    ELSE IF IndicatorScore(Mt4Indicators, headers) >= 3 THEN sMT4
    ELSE sGeneric

\* C14: with a declared source of auto or of an unknown platform, the frame
\* is renamed by the mapping of the platform with the largest number of
\* indicator headers present (MT5 before MT4 on a tie), and by the fuzzy
\* mapping only when no platform has three of its indicator headers.
C14_DetectionByScore ==
    Standardized /\ nsource \in {sAuto, sCTrader} =>
        ncols = RenameAll(nheaders, nheaders, ColumnMapping(nheaders, ScoredPlatform(nheaders)))

\* the source whose mapping _standardize_columns applies
AppliedSource == IF nsource = sAuto THEN DetectSource(nheaders) ELSE nsource

FuzzyMapped == Standardized /\ Upper(AppliedSource) \notin {sMT5, sMT4}

CanonicalFields == {Mt5Columns[i][2] : i \in DOMAIN Mt5Columns}

\* C15: after the fuzzy mapping no two columns of the renamed frame carry
\* the same canonical name.
C15_CanonicalClaimedOnce ==
    FuzzyMapped =>
        \A i, j \in DOMAIN ncols :
            ncols[i] \in CanonicalFields /\ ncols[i] = ncols[j] => i = j

AllLosses(xs, a, b) == \A k \in a..b : xs[k] < 0

\* the length of the longest run of consecutive trades with profit < 0
LongestLossRun(xs) ==
    MaxOf({0} \cup {b - a + 1 : <<a, b>> \in {r \in (DOMAIN xs) \X (DOMAIN xs) :
                                                r[1] <= r[2] /\ AllLosses(xs, r[1], r[2])}})

\* C17: max_consecutive_losses of the risk metrics and of the risk insights
\* is the length of the longest run of consecutive trades with profit < 0
\* in data-set order; a trade with profit >= 0, also exactly 0, ends a run.
C17_LongestLossRun ==
    /\ "basic_risk" \in apc =>
           ametrics.basic_risk.max_consecutive_losses = LongestLossRun(aprofits)
    /\ "risk_insights" \in apc =>
           ametrics.risk_insights.max_consecutive_losses = LongestLossRun(aprofits)

\* two losses separated by a break-even trade: the longest run is 1
C17_Witness ==
    /\ {"basic_risk", "risk_insights"} \subseteq apc
    /\ aprofits = <<0 - 1, 0, 0 - 1>>
    /\ ametrics.basic_risk.max_consecutive_losses = 1
    /\ ametrics.risk_insights.max_consecutive_losses = 1

\* the maximal runs of trade indices (from 0) below the running maximum,
\* each with its start, end, duration and depth
DrawdownRuns(xs) ==
    LET dd == Drawdown(xs)
        Below(i) == dd[i + 1] < 0
    IN {[start |-> a, end |-> b, duration |-> b - a + 1,
         depth |-> MinOf({dd[k + 1] : k \in a..b})] :
            <<a, b>> \in {r \in (0..(Len(xs) - 1)) \X (0..(Len(xs) - 1)) :
                             /\ r[1] <= r[2]
                             /\ \A k \in r[1]..r[2] : Below(k)
                             /\ r[1] = 0 \/ ~Below(r[1] - 1)
                             /\ r[2] = Len(xs) - 1 \/ ~Below(r[2] + 1)}}

\* C18: the drawdown analysis records exactly one period for each maximal
\* run of trades below the running maximum of the cumulative profit, with
\* its start, end, duration = end - start + 1 and depth, also for a run
\* that is still open at the last trade.
C18_OnePeriodPerRun ==
    "drawdown" \in apc =>
        /\ Range(ametrics.drawdown.periods) = DrawdownRuns(aprofits)
        /\ ametrics.drawdown.drawdown_periods = Cardinality(DrawdownRuns(aprofits))

\* the maximal runs of consecutive losing trades of xs, as index pairs
LossRuns(xs) ==
    {r \in (DOMAIN xs) \X (DOMAIN xs) :
        /\ r[1] <= r[2]
        /\ AllLosses(xs, r[1], r[2])
        /\ r[1] = 1 \/ xs[r[1] - 1] >= 0
        /\ r[2] = Len(xs) \/ xs[r[2] + 1] >= 0}

\* C19: in the tail-risk analysis total_loss_runs is the number of maximal
\* runs of consecutive losing trades, avg_loss_run_length the mean length
\* of all of them, a run reaching the last trade included, and
\* max_consecutive_losses the length of the longest.
C19_AllLossRunsCounted ==
    qpc = "done" /\ ~qresult.error =>
        /\ qresult.tail_risk.total_loss_runs = Cardinality(LossRuns(qprofits))
        /\ LossRuns(qprofits) # {} =>
               qresult.tail_risk.avg_loss_run_length =
                   Frac(Len(Losses(qprofits)), Cardinality(LossRuns(qprofits)))
        /\ qresult.tail_risk.max_consecutive_losses = LongestLossRun(qprofits)

\* the session order and windows of the specification: start to end,
\* end excluded, through midnight when the start is later than the end
SessionOrder == <<"Sydney", "Tokyo", "London", "New York">>

WindowOf(name) ==
    CASE name = "Sydney" -> {21, 22, 23, 0, 1, 2, 3, 4, 5}
      [] name = "Tokyo" -> {23, 0, 1, 2, 3, 4, 5, 6, 7}
      [] name = "London" -> 7..15
      [] name = "New York" -> 12..20

\* session is the first in order whose window contains hour
FirstContaining(session, hour) ==
    \E k \in DOMAIN SessionOrder :
        /\ session = SessionOrder[k]
        /\ hour \in WindowOf(SessionOrder[k])
        /\ \A j \in 1..(k - 1) : hour \notin WindowOf(SessionOrder[j])

\* C13: every hour 0..23 gets exactly one session, the first of Sydney,
\* Tokyo, London, New York whose half-open window contains it; hour 22 is
\* Sydney; the analysis engine and the ML pipeline give the same session.
C13_SessionOfHour ==
    /\ "engine" \in spc =>
           \A i \in DOMAIN shours :
               /\ FirstContaining(ssessions.engine[i], shours[i])
               /\ shours[i] = 22 => ssessions.engine[i] = "Sydney"
    /\ "pipeline" \in spc =>
           \A i \in DOMAIN shours :
               /\ FirstContaining(ssessions.pipeline[i], shours[i])
               /\ shours[i] = 22 => ssessions.pipeline[i] = "Sydney"
    /\ {"engine", "pipeline"} \subseteq spc => ssessions.engine = ssessions.pipeline

\* both computations ran on a data set with a trade at 22h and one at 7h,
\* which is in Tokyo's and in London's window
C13_Witness ==
    /\ spc = {"engine", "pipeline"}
    /\ shours = <<22, 7>>
    /\ ssessions.engine = <<"Sydney", "Tokyo">>
    /\ ssessions.pipeline = <<"Sydney", "Tokyo">>

------------------------------------------------------------------------------------------------------------------------------------------------\* the priority score of the specification, times 1000
ScoreTimes1000(insight) ==
    4 * (CASE insight.impact = "high" -> 3 [] insight.impact = "medium" -> 2
           [] insight.impact = "low" -> 1) * 100
    + 3 * (CASE insight.type = "critical" -> 4 [] insight.type = "warning" -> 3
             [] insight.type = "info" -> 2 [] insight.type = "success" -> 1) * 100
    + 3 * insight.confidence

\* the position of an insight in the list as generated
GeneratedAt(insight) == CHOOSE i \in DOMAIN igenerated : igenerated[i] = insight

------------------------------------------------------------------------\* C21: on a valid non-empty data set generate_comprehensive_insights runs
\* its six rule groups to completion and never ends in an error.
C21_GeneratorCompletes ==
    gpc # "idle" => graised = "none" /\ gpc \notin {"raised", "failed"}

------------------------------------------------------------------------------------------------------------------------------------------------------------------------------------------------------------------------\* C22: no analysis invocation changes shared process-wide state: the
\* fields of the shared ML pipeline, the model files and the global random
\* state stay as they were before the invocations.
C22_SharedStateUntouched ==
    /\ mself = NewMLPipeline
    /\ mfiles = {}
    /\ qrng = ProcessRandomState

\* C23: clustering on fewer than 5 trades and classification on fewer than
\* 20 return a result with an error stating the minimum, without raising
\* and without fitting or storing anything; with the minimum number of
\* trades or more that error is not returned.
C23_InsufficientDataError ==
    /\ mlast.kind = "clustering" =>
           IF mlast.n < 5
           THEN /\ mlast.out.error = "Insufficient data for clustering (minimum 5 trades required)"
                /\ mlast.out.raised = "none" /\ mlast.out.writes = {}
           ELSE mlast.out.error # "Insufficient data for clustering (minimum 5 trades required)"
    /\ mlast.kind = "classification" =>
           IF mlast.n < 20
           THEN /\ mlast.out.error = "Insufficient data for classification (minimum 20 trades required)"
                /\ mlast.out.raised = "none" /\ mlast.out.writes = {}
           ELSE mlast.out.error # "Insufficient data for classification (minimum 20 trades required)"

\* clustering of 4 trades was refused and the pipeline is as constructed
C23_Witness ==
    /\ mlast.kind = "clustering" /\ mlast.n = 4
    /\ mlast.out.error = "Insufficient data for clustering (minimum 5 trades required)"
    /\ mself = NewMLPipeline /\ mcalls = 1

\* C24: classification of at least 20 trades with profitable and other
\* trades returns train_accuracy, test_accuracy and a cv_scores list of at
\* most 5 entries, non-empty exactly when cross_validation is true, and
\* does not end in an error.
C24_ClassificationReturns ==
    mlast.kind = "classification" /\ mlast.n >= 20 /\ mlast.winners > 0 /\ mlast.winners < mlast.n =>
        /\ mlast.out.raised = "none" /\ mlast.out.error = ""
        /\ {"train_accuracy", "test_accuracy", "cv_scores"} \subseteq mlast.out.keys
        /\ mlast.out.cv_len <= 5
        /\ mlast.cross_validation <=> mlast.out.cv_len > 0

\* n clamped to lo..hi
Clamp(n, lo, hi) == IF n < lo THEN lo ELSE IF n > hi THEN hi ELSE n

\* a clustering that ran its k-means without a cluster count from the caller
HeuristicClusters ==
    /\ mlast.kind \in {"clustering", "quick"}
    /\ mlast.algorithm = "kmeans" /\ mlast.n_clusters = 0
    /\ mlast.out.raised = "none" /\ mlast.out.error = ""

\* C25: without a cluster count from the caller the number of clusters for
\* n samples is clamp(floor(n / 5), 2, 8), in the detailed and in the quick
\* clustering, and it is smaller than the number of samples.
C25_HeuristicClusterCount ==
    HeuristicClusters =>
        /\ mlast.out.n_clusters = Clamp(mlast.n \div 5, 2, 8)
        /\ mlast.out.n_clusters < mlast.n

\* C26: the data set process_file returns passes the consistency checks of
\* the validator, for every mix of closed and open trades: no mismatch of
\* total_trades or of the date range is reported and nothing is raised.
C26_ProcessedDataConsistent ==
    xpc = "validated" => xerrors = <<>> /\ xraised = NoExc

\* the trade count of a returned data set is never reported
C26_TradeCountConsistent ==
    xpc = "validated" =>
        \A i \in DOMAIN xerrors : xerrors[i].code # "total_trades_mismatch"

------------------------------------------------------------------------\* C27: for a trade emitted with a close price, the pips the normalizer
\* computed and the pips the Trade model recomputes when the stored data set
\* is loaded are equal, whatever the spelling of the symbol.
C27_PipsAgree ==
    ppc = "loaded" => ppips.model = ppips.normalizer

\* the headers of the frame whose lowercased, trimmed text is a keyword of
\* the g-th keyword list
KeywordHeaders(g) ==
    {i \in DOMAIN nheaders : Strip(Lower(nheaders[i])) \in KeywordGroups[g][2]}

\* C28: in the fuzzy mapping a header whose lowercased, trimmed text is a
\* keyword of a canonical field is mapped to that field, and not to the
\* field of an earlier keyword group.
C28_KeywordMapsToItsField ==
    FuzzyMapped =>
        \A g \in DOMAIN KeywordGroups : \A i \in KeywordHeaders(g) :
            <<nheaders[i], KeywordGroups[g][1]>> \in Range(AutoMapColumns(nheaders))

\* the handlers with a registered subscription
Registered == {esubs[i].handler.name : i \in DOMAIN esubs}

\* C29: a handler subscribed with once=True is executed at most once over
\* any interleaving of emit calls, and once its first execution has
\* completed its subscription is no longer registered.
C29_OnceAtMostOnce ==
    \A name \in eonce :
        /\ eexec[name].started <= 1
        /\ eexec[name].completed >= 1 => name \notin Registered

\* C30: every registered plugin instance is an instance of the Plugin class
\* of the module in its own plugin directory, after any sequence of load and
\* unload calls.
C30_InstanceFromOwnDirectory ==
    \A plugin_name \in PluginDirectories :
        lplugins[plugin_name] # NoPlugin => lplugins[plugin_name].class_of = plugin_name

-----------------------------------------------------------------------------------------------------------------------------------------------------
(* Specifications                                                          *)

NoPips == [normalizer |-> 0, model |-> 0]

IdleTrade == [type |-> BuyStr, symbol |-> EURUSD, open_price |-> 1, close_price |-> 1]

\* an upload request has arrived; the other components are idle
InitUpload ==
    /\ upc = "start" /\ data = NoData /\ errors = <<>> /\ warnings = <<>>
    /\ result = NoResult /\ raised = NoRaise /\ storage = {} /\ response = 0
    /\ npc = "idle" /\ nheaders = <<>> /\ ncols = <<>> /\ nsource = <<>>
    /\ nerror = <<>> /\ nout = "none"
    /\ rpc = "idle" /\ rself = NewDataProcessor /\ rlog = <<>>
    /\ ppc = "idle" /\ ptrade = IdleTrade /\ ppips = NoPips
    /\ apc = {"idle"} /\ aprofits = <<>> /\ ametrics = NoMetrics
    /\ qpc = "idle" /\ qprofits = <<>> /\ qresult = NoPluginResult
    /\ qrng = ProcessRandomState
    /\ spc = {"idle"} /\ shours = <<>> /\ ssessions = NoSessions
    /\ ipc = "idle" /\ igenerated = <<>> /\ ireturned = <<>>
    /\ gpc = "idle" /\ gtrades = 0 /\ ginsights = <<>> /\ graised = "none"
    /\ gresponse = 0
    /\ mpc = "idle" /\ mtrades = 0 /\ mwinners = 0 /\ mcalls = 0
    /\ mself = NewMLPipeline /\ mfiles = {} /\ mlast = NoInvocation
    /\ xpc = "idle" /\ xframe = NoFrame /\ xdata = NoDataset /\ xerrors = <<>>
    /\ xraised = NoExc
    /\ evpc = "idle" /\ esubs = <<>> /\ etasks = [t \in EmitTasks |-> IdleEmit]
    /\ eexec = [n \in 1..MaxSubscriptions |-> NoExecutions] /\ estats = NewStats
    /\ eonce = {} /\ emany = {} /\ ecalls = 0
    /\ lpc = "idle" /\ lmodules = NotImported
    /\ lplugins = [n \in PluginDirectories |-> NoPlugin] /\ levents = <<>>
    /\ lreturned = <<>> /\ lcalls = 0

\* process_file has been called on a file
InitNorm ==
    /\ upc = "idle" /\ data = NoData /\ errors = <<>> /\ warnings = <<>>
    /\ result = NoResult /\ raised = NoRaise /\ storage = {} /\ response = 0
    /\ npc = "start" /\ nheaders = <<>> /\ ncols = <<>> /\ nsource = <<>>
    /\ nerror = <<>> /\ nout = "none"
    /\ rpc = "idle" /\ rself = NewDataProcessor /\ rlog = <<>>
    /\ ppc = "idle" /\ ptrade = IdleTrade /\ ppips = NoPips
    /\ apc = {"idle"} /\ aprofits = <<>> /\ ametrics = NoMetrics
    /\ qpc = "idle" /\ qprofits = <<>> /\ qresult = NoPluginResult
    /\ qrng = ProcessRandomState
    /\ spc = {"idle"} /\ shours = <<>> /\ ssessions = NoSessions
    /\ ipc = "idle" /\ igenerated = <<>> /\ ireturned = <<>>
    /\ gpc = "idle" /\ gtrades = 0 /\ ginsights = <<>> /\ graised = "none"
    /\ gresponse = 0
    /\ mpc = "idle" /\ mtrades = 0 /\ mwinners = 0 /\ mcalls = 0
    /\ mself = NewMLPipeline /\ mfiles = {} /\ mlast = NoInvocation
    /\ xpc = "idle" /\ xframe = NoFrame /\ xdata = NoDataset /\ xerrors = <<>>
    /\ xraised = NoExc
    /\ evpc = "idle" /\ esubs = <<>> /\ etasks = [t \in EmitTasks |-> IdleEmit]
    /\ eexec = [n \in 1..MaxSubscriptions |-> NoExecutions] /\ estats = NewStats
    /\ eonce = {} /\ emany = {} /\ ecalls = 0
    /\ lpc = "idle" /\ lmodules = NotImported
    /\ lplugins = [n \in PluginDirectories |-> NoPlugin] /\ levents = <<>>
    /\ lreturned = <<>> /\ lcalls = 0

\* a DataProcessor has been constructed
InitRepeat ==
    /\ upc = "idle" /\ data = NoData /\ errors = <<>> /\ warnings = <<>>
    /\ result = NoResult /\ raised = NoRaise /\ storage = {} /\ response = 0
    /\ npc = "idle" /\ nheaders = <<>> /\ ncols = <<>> /\ nsource = <<>>
    /\ nerror = <<>> /\ nout = "none"
    /\ rpc = "ready" /\ rself = NewDataProcessor /\ rlog = <<>>
    /\ ppc = "idle" /\ ptrade = IdleTrade /\ ppips = NoPips
    /\ apc = {"idle"} /\ aprofits = <<>> /\ ametrics = NoMetrics
    /\ qpc = "idle" /\ qprofits = <<>> /\ qresult = NoPluginResult
    /\ qrng = ProcessRandomState
    /\ spc = {"idle"} /\ shours = <<>> /\ ssessions = NoSessions
    /\ ipc = "idle" /\ igenerated = <<>> /\ ireturned = <<>>
    /\ gpc = "idle" /\ gtrades = 0 /\ ginsights = <<>> /\ graised = "none"
    /\ gresponse = 0
    /\ mpc = "idle" /\ mtrades = 0 /\ mwinners = 0 /\ mcalls = 0
    /\ mself = NewMLPipeline /\ mfiles = {} /\ mlast = NoInvocation
    /\ xpc = "idle" /\ xframe = NoFrame /\ xdata = NoDataset /\ xerrors = <<>>
    /\ xraised = NoExc
    /\ evpc = "idle" /\ esubs = <<>> /\ etasks = [t \in EmitTasks |-> IdleEmit]
    /\ eexec = [n \in 1..MaxSubscriptions |-> NoExecutions] /\ estats = NewStats
    /\ eonce = {} /\ emany = {} /\ ecalls = 0
    /\ lpc = "idle" /\ lmodules = NotImported
    /\ lplugins = [n \in PluginDirectories |-> NoPlugin] /\ levents = <<>>
    /\ lreturned = <<>> /\ lcalls = 0

\* a closed trade has passed _remove_invalid_trades
InitPips ==
    /\ upc = "idle" /\ data = NoData /\ errors = <<>> /\ warnings = <<>>
    /\ result = NoResult /\ raised = NoRaise /\ storage = {} /\ response = 0
    /\ npc = "idle" /\ nheaders = <<>> /\ ncols = <<>> /\ nsource = <<>>
    /\ nerror = <<>> /\ nout = "none"
    /\ rpc = "idle" /\ rself = NewDataProcessor /\ rlog = <<>>
    /\ ppc = "start" /\ ptrade \in PipTrades /\ ppips = NoPips
    /\ apc = {"idle"} /\ aprofits = <<>> /\ ametrics = NoMetrics
    /\ qpc = "idle" /\ qprofits = <<>> /\ qresult = NoPluginResult
    /\ qrng = ProcessRandomState
    /\ spc = {"idle"} /\ shours = <<>> /\ ssessions = NoSessions
    /\ ipc = "idle" /\ igenerated = <<>> /\ ireturned = <<>>
    /\ gpc = "idle" /\ gtrades = 0 /\ ginsights = <<>> /\ graised = "none"
    /\ gresponse = 0
    /\ mpc = "idle" /\ mtrades = 0 /\ mwinners = 0 /\ mcalls = 0
    /\ mself = NewMLPipeline /\ mfiles = {} /\ mlast = NoInvocation
    /\ xpc = "idle" /\ xframe = NoFrame /\ xdata = NoDataset /\ xerrors = <<>>
    /\ xraised = NoExc
    /\ evpc = "idle" /\ esubs = <<>> /\ etasks = [t \in EmitTasks |-> IdleEmit]
    /\ eexec = [n \in 1..MaxSubscriptions |-> NoExecutions] /\ estats = NewStats
    /\ eonce = {} /\ emany = {} /\ ecalls = 0
    /\ lpc = "idle" /\ lmodules = NotImported
    /\ lplugins = [n \in PluginDirectories |-> NoPlugin] /\ levents = <<>>
    /\ lreturned = <<>> /\ lcalls = 0

\* a data set is loaded; apc is the set of computations that have returned
InitPerf ==
    /\ upc = "idle" /\ data = NoData /\ errors = <<>> /\ warnings = <<>>
    /\ result = NoResult /\ raised = NoRaise /\ storage = {} /\ response = 0
    /\ npc = "idle" /\ nheaders = <<>> /\ ncols = <<>> /\ nsource = <<>>
    /\ nerror = <<>> /\ nout = "none"
    /\ rpc = "idle" /\ rself = NewDataProcessor /\ rlog = <<>>
    /\ ppc = "idle" /\ ptrade = IdleTrade /\ ppips = NoPips
    /\ apc = {} /\ aprofits \in ProfitLists /\ ametrics = NoMetrics
    /\ qpc = "idle" /\ qprofits = <<>> /\ qresult = NoPluginResult
    /\ qrng = ProcessRandomState
    /\ spc = {"idle"} /\ shours = <<>> /\ ssessions = NoSessions
    /\ ipc = "idle" /\ igenerated = <<>> /\ ireturned = <<>>
    /\ gpc = "idle" /\ gtrades = 0 /\ ginsights = <<>> /\ graised = "none"
    /\ gresponse = 0
    /\ mpc = "idle" /\ mtrades = 0 /\ mwinners = 0 /\ mcalls = 0
    /\ mself = NewMLPipeline /\ mfiles = {} /\ mlast = NoInvocation
    /\ xpc = "idle" /\ xframe = NoFrame /\ xdata = NoDataset /\ xerrors = <<>>
    /\ xraised = NoExc
    /\ evpc = "idle" /\ esubs = <<>> /\ etasks = [t \in EmitTasks |-> IdleEmit]
    /\ eexec = [n \in 1..MaxSubscriptions |-> NoExecutions] /\ estats = NewStats
    /\ eonce = {} /\ emany = {} /\ ecalls = 0
    /\ lpc = "idle" /\ lmodules = NotImported
    /\ lplugins = [n \in PluginDirectories |-> NoPlugin] /\ levents = <<>>
    /\ lreturned = <<>> /\ lcalls = 0

\* the risk assessment plugin is handed a data set
InitPlugin ==
    /\ upc = "idle" /\ data = NoData /\ errors = <<>> /\ warnings = <<>>
    /\ result = NoResult /\ raised = NoRaise /\ storage = {} /\ response = 0
    /\ npc = "idle" /\ nheaders = <<>> /\ ncols = <<>> /\ nsource = <<>>
    /\ nerror = <<>> /\ nout = "none"
    /\ rpc = "idle" /\ rself = NewDataProcessor /\ rlog = <<>>
    /\ ppc = "idle" /\ ptrade = IdleTrade /\ ppips = NoPips
    /\ apc = {"idle"} /\ aprofits = <<>> /\ ametrics = NoMetrics
    /\ qpc = "start" /\ qprofits \in PluginProfitLists(MaxPluginTrades)
    /\ qresult = NoPluginResult /\ qrng = ProcessRandomState
    /\ spc = {"idle"} /\ shours = <<>> /\ ssessions = NoSessions
    /\ ipc = "idle" /\ igenerated = <<>> /\ ireturned = <<>>
    /\ gpc = "idle" /\ gtrades = 0 /\ ginsights = <<>> /\ graised = "none"
    /\ gresponse = 0
    /\ mpc = "idle" /\ mtrades = 0 /\ mwinners = 0 /\ mcalls = 0
    /\ mself = NewMLPipeline /\ mfiles = {} /\ mlast = NoInvocation
    /\ xpc = "idle" /\ xframe = NoFrame /\ xdata = NoDataset /\ xerrors = <<>>
    /\ xraised = NoExc
    /\ evpc = "idle" /\ esubs = <<>> /\ etasks = [t \in EmitTasks |-> IdleEmit]
    /\ eexec = [n \in 1..MaxSubscriptions |-> NoExecutions] /\ estats = NewStats
    /\ eonce = {} /\ emany = {} /\ ecalls = 0
    /\ lpc = "idle" /\ lmodules = NotImported
    /\ lplugins = [n \in PluginDirectories |-> NoPlugin] /\ levents = <<>>
    /\ lreturned = <<>> /\ lcalls = 0

\* the open hours of a data set are mapped to trading sessions
InitSession ==
    /\ upc = "idle" /\ data = NoData /\ errors = <<>> /\ warnings = <<>>
    /\ result = NoResult /\ raised = NoRaise /\ storage = {} /\ response = 0
    /\ npc = "idle" /\ nheaders = <<>> /\ ncols = <<>> /\ nsource = <<>>
    /\ nerror = <<>> /\ nout = "none"
    /\ rpc = "idle" /\ rself = NewDataProcessor /\ rlog = <<>>
    /\ ppc = "idle" /\ ptrade = IdleTrade /\ ppips = NoPips
    /\ apc = {"idle"} /\ aprofits = <<>> /\ ametrics = NoMetrics
    /\ qpc = "idle" /\ qprofits = <<>> /\ qresult = NoPluginResult
    /\ qrng = ProcessRandomState
    /\ spc = {} /\ shours \in HourLists /\ ssessions = NoSessions
    /\ ipc = "idle" /\ igenerated = <<>> /\ ireturned = <<>>
    /\ gpc = "idle" /\ gtrades = 0 /\ ginsights = <<>> /\ graised = "none"
    /\ gresponse = 0
    /\ mpc = "idle" /\ mtrades = 0 /\ mwinners = 0 /\ mcalls = 0
    /\ mself = NewMLPipeline /\ mfiles = {} /\ mlast = NoInvocation
    /\ xpc = "idle" /\ xframe = NoFrame /\ xdata = NoDataset /\ xerrors = <<>>
    /\ xraised = NoExc
    /\ evpc = "idle" /\ esubs = <<>> /\ etasks = [t \in EmitTasks |-> IdleEmit]
    /\ eexec = [n \in 1..MaxSubscriptions |-> NoExecutions] /\ estats = NewStats
    /\ eonce = {} /\ emany = {} /\ ecalls = 0
    /\ lpc = "idle" /\ lmodules = NotImported
    /\ lplugins = [n \in PluginDirectories |-> NoPlugin] /\ levents = <<>>
    /\ lreturned = <<>> /\ lcalls = 0

\* the six insight generators have appended their insights
InitInsight ==
    /\ upc = "idle" /\ data = NoData /\ errors = <<>> /\ warnings = <<>>
    /\ result = NoResult /\ raised = NoRaise /\ storage = {} /\ response = 0
    /\ npc = "idle" /\ nheaders = <<>> /\ ncols = <<>> /\ nsource = <<>>
    /\ nerror = <<>> /\ nout = "none"
    /\ rpc = "idle" /\ rself = NewDataProcessor /\ rlog = <<>>
    /\ ppc = "idle" /\ ptrade = IdleTrade /\ ppips = NoPips
    /\ apc = {"idle"} /\ aprofits = <<>> /\ ametrics = NoMetrics
    /\ qpc = "idle" /\ qprofits = <<>> /\ qresult = NoPluginResult
    /\ qrng = ProcessRandomState
    /\ spc = {"idle"} /\ shours = <<>> /\ ssessions = NoSessions
    /\ ipc = "generated" /\ igenerated \in GeneratedLists(InsightTemplates)
    /\ ireturned = <<>>
    /\ gpc = "idle" /\ gtrades = 0 /\ ginsights = <<>> /\ graised = "none"
    /\ gresponse = 0
    /\ mpc = "idle" /\ mtrades = 0 /\ mwinners = 0 /\ mcalls = 0
    /\ mself = NewMLPipeline /\ mfiles = {} /\ mlast = NoInvocation
    /\ xpc = "idle" /\ xframe = NoFrame /\ xdata = NoDataset /\ xerrors = <<>>
    /\ xraised = NoExc
    /\ evpc = "idle" /\ esubs = <<>> /\ etasks = [t \in EmitTasks |-> IdleEmit]
    /\ eexec = [n \in 1..MaxSubscriptions |-> NoExecutions] /\ estats = NewStats
    /\ eonce = {} /\ emany = {} /\ ecalls = 0
    /\ lpc = "idle" /\ lmodules = NotImported
    /\ lplugins = [n \in PluginDirectories |-> NoPlugin] /\ levents = <<>>
    /\ lreturned = <<>> /\ lcalls = 0

\* generate_comprehensive_insights is called on a data set
InitGenerate ==
    /\ upc = "idle" /\ data = NoData /\ errors = <<>> /\ warnings = <<>>
    /\ result = NoResult /\ raised = NoRaise /\ storage = {} /\ response = 0
    /\ npc = "idle" /\ nheaders = <<>> /\ ncols = <<>> /\ nsource = <<>>
    /\ nerror = <<>> /\ nout = "none"
    /\ rpc = "idle" /\ rself = NewDataProcessor /\ rlog = <<>>
    /\ ppc = "idle" /\ ptrade = IdleTrade /\ ppips = NoPips
    /\ apc = {"idle"} /\ aprofits = <<>> /\ ametrics = NoMetrics
    /\ qpc = "idle" /\ qprofits = <<>> /\ qresult = NoPluginResult
    /\ qrng = ProcessRandomState
    /\ spc = {"idle"} /\ shours = <<>> /\ ssessions = NoSessions
    /\ ipc = "idle" /\ igenerated = <<>> /\ ireturned = <<>>
    /\ gpc = "performance" /\ gtrades \in 1..MaxDatasetTrades /\ ginsights = <<>>
    /\ graised = "none" /\ gresponse = 0
    /\ mpc = "idle" /\ mtrades = 0 /\ mwinners = 0 /\ mcalls = 0
    /\ mself = NewMLPipeline /\ mfiles = {} /\ mlast = NoInvocation
    /\ xpc = "idle" /\ xframe = NoFrame /\ xdata = NoDataset /\ xerrors = <<>>
    /\ xraised = NoExc
    /\ evpc = "idle" /\ esubs = <<>> /\ etasks = [t \in EmitTasks |-> IdleEmit]
    /\ eexec = [n \in 1..MaxSubscriptions |-> NoExecutions] /\ estats = NewStats
    /\ eonce = {} /\ emany = {} /\ ecalls = 0
    /\ lpc = "idle" /\ lmodules = NotImported
    /\ lplugins = [n \in PluginDirectories |-> NoPlugin] /\ levents = <<>>
    /\ lreturned = <<>> /\ lcalls = 0

\* the shared engine and ML pipeline have been constructed
InitML ==
    /\ upc = "idle" /\ data = NoData /\ errors = <<>> /\ warnings = <<>>
    /\ result = NoResult /\ raised = NoRaise /\ storage = {} /\ response = 0
    /\ npc = "idle" /\ nheaders = <<>> /\ ncols = <<>> /\ nsource = <<>>
    /\ nerror = <<>> /\ nout = "none"
    /\ rpc = "idle" /\ rself = NewDataProcessor /\ rlog = <<>>
    /\ ppc = "idle" /\ ptrade = IdleTrade /\ ppips = NoPips
    /\ apc = {"idle"} /\ aprofits = <<>> /\ ametrics = NoMetrics
    /\ qpc = "idle" /\ qprofits = <<>> /\ qresult = NoPluginResult
    /\ qrng = ProcessRandomState
    /\ spc = {"idle"} /\ shours = <<>> /\ ssessions = NoSessions
    /\ ipc = "idle" /\ igenerated = <<>> /\ ireturned = <<>>
    /\ gpc = "idle" /\ gtrades = 0 /\ ginsights = <<>> /\ graised = "none"
    /\ gresponse = 0
    /\ mpc = "ready" /\ mtrades \in 1..MaxMLTrades /\ mwinners \in WinnerCounts(mtrades)
    /\ mcalls = 0 /\ mself = NewMLPipeline /\ mfiles = {} /\ mlast = NoInvocation
    /\ xpc = "idle" /\ xframe = NoFrame /\ xdata = NoDataset /\ xerrors = <<>>
    /\ xraised = NoExc
    /\ evpc = "idle" /\ esubs = <<>> /\ etasks = [t \in EmitTasks |-> IdleEmit]
    /\ eexec = [n \in 1..MaxSubscriptions |-> NoExecutions] /\ estats = NewStats
    /\ eonce = {} /\ emany = {} /\ ecalls = 0
    /\ lpc = "idle" /\ lmodules = NotImported
    /\ lplugins = [n \in PluginDirectories |-> NoPlugin] /\ levents = <<>>
    /\ lreturned = <<>> /\ lcalls = 0

\* process_file has cleaned a frame
InitExtract ==
    /\ upc = "idle" /\ data = NoData /\ errors = <<>> /\ warnings = <<>>
    /\ result = NoResult /\ raised = NoRaise /\ storage = {} /\ response = 0
    /\ npc = "idle" /\ nheaders = <<>> /\ ncols = <<>> /\ nsource = <<>>
    /\ nerror = <<>> /\ nout = "none"
    /\ rpc = "idle" /\ rself = NewDataProcessor /\ rlog = <<>>
    /\ ppc = "idle" /\ ptrade = IdleTrade /\ ppips = NoPips
    /\ apc = {"idle"} /\ aprofits = <<>> /\ ametrics = NoMetrics
    /\ qpc = "idle" /\ qprofits = <<>> /\ qresult = NoPluginResult
    /\ qrng = ProcessRandomState
    /\ spc = {"idle"} /\ shours = <<>> /\ ssessions = NoSessions
    /\ ipc = "idle" /\ igenerated = <<>> /\ ireturned = <<>>
    /\ gpc = "idle" /\ gtrades = 0 /\ ginsights = <<>> /\ graised = "none"
    /\ gresponse = 0
    /\ mpc = "idle" /\ mtrades = 0 /\ mwinners = 0 /\ mcalls = 0
    /\ mself = NewMLPipeline /\ mfiles = {} /\ mlast = NoInvocation
    /\ xpc = "cleaned" /\ xframe \in CleanedFrames(MaxRows, MaxDay) /\ xdata = NoDataset
    /\ xerrors = <<>> /\ xraised = NoExc
    /\ evpc = "idle" /\ esubs = <<>> /\ etasks = [t \in EmitTasks |-> IdleEmit]
    /\ eexec = [n \in 1..MaxSubscriptions |-> NoExecutions] /\ estats = NewStats
    /\ eonce = {} /\ emany = {} /\ ecalls = 0
    /\ lpc = "idle" /\ lmodules = NotImported
    /\ lplugins = [n \in PluginDirectories |-> NoPlugin] /\ levents = <<>>
    /\ lreturned = <<>> /\ lcalls = 0

\* the event manager has been constructed
InitEvent ==
    /\ upc = "idle" /\ data = NoData /\ errors = <<>> /\ warnings = <<>>
    /\ result = NoResult /\ raised = NoRaise /\ storage = {} /\ response = 0
    /\ npc = "idle" /\ nheaders = <<>> /\ ncols = <<>> /\ nsource = <<>>
    /\ nerror = <<>> /\ nout = "none"
    /\ rpc = "idle" /\ rself = NewDataProcessor /\ rlog = <<>>
    /\ ppc = "idle" /\ ptrade = IdleTrade /\ ppips = NoPips
    /\ apc = {"idle"} /\ aprofits = <<>> /\ ametrics = NoMetrics
    /\ qpc = "idle" /\ qprofits = <<>> /\ qresult = NoPluginResult
    /\ qrng = ProcessRandomState
    /\ spc = {"idle"} /\ shours = <<>> /\ ssessions = NoSessions
    /\ ipc = "idle" /\ igenerated = <<>> /\ ireturned = <<>>
    /\ gpc = "idle" /\ gtrades = 0 /\ ginsights = <<>> /\ graised = "none"
    /\ gresponse = 0
    /\ mpc = "idle" /\ mtrades = 0 /\ mwinners = 0 /\ mcalls = 0
    /\ mself = NewMLPipeline /\ mfiles = {} /\ mlast = NoInvocation
    /\ xpc = "idle" /\ xframe = NoFrame /\ xdata = NoDataset /\ xerrors = <<>>
    /\ xraised = NoExc
    /\ evpc = "ready" /\ esubs = <<>> /\ etasks = [t \in EmitTasks |-> IdleEmit]
    /\ eexec = [n \in 1..MaxSubscriptions |-> NoExecutions] /\ estats = NewStats
    /\ eonce = {} /\ emany = {} /\ ecalls = 0
    /\ lpc = "idle" /\ lmodules = NotImported
    /\ lplugins = [n \in PluginDirectories |-> NoPlugin] /\ levents = <<>>
    /\ lreturned = <<>> /\ lcalls = 0

\* the plugin manager has been constructed and no plugin module is imported
InitLoader ==
    /\ upc = "idle" /\ data = NoData /\ errors = <<>> /\ warnings = <<>>
    /\ result = NoResult /\ raised = NoRaise /\ storage = {} /\ response = 0
    /\ npc = "idle" /\ nheaders = <<>> /\ ncols = <<>> /\ nsource = <<>>
    /\ nerror = <<>> /\ nout = "none"
    /\ rpc = "idle" /\ rself = NewDataProcessor /\ rlog = <<>>
    /\ ppc = "idle" /\ ptrade = IdleTrade /\ ppips = NoPips
    /\ apc = {"idle"} /\ aprofits = <<>> /\ ametrics = NoMetrics
    /\ qpc = "idle" /\ qprofits = <<>> /\ qresult = NoPluginResult
    /\ qrng = ProcessRandomState
    /\ spc = {"idle"} /\ shours = <<>> /\ ssessions = NoSessions
    /\ ipc = "idle" /\ igenerated = <<>> /\ ireturned = <<>>
    /\ gpc = "idle" /\ gtrades = 0 /\ ginsights = <<>> /\ graised = "none"
    /\ gresponse = 0
    /\ mpc = "idle" /\ mtrades = 0 /\ mwinners = 0 /\ mcalls = 0
    /\ mself = NewMLPipeline /\ mfiles = {} /\ mlast = NoInvocation
    /\ xpc = "idle" /\ xframe = NoFrame /\ xdata = NoDataset /\ xerrors = <<>>
    /\ xraised = NoExc
    /\ evpc = "idle" /\ esubs = <<>> /\ etasks = [t \in EmitTasks |-> IdleEmit]
    /\ eexec = [n \in 1..MaxSubscriptions |-> NoExecutions] /\ estats = NewStats
    /\ eonce = {} /\ emany = {} /\ ecalls = 0
    /\ lpc = "ready" /\ lmodules = NotImported
    /\ lplugins = [n \in PluginDirectories |-> NoPlugin] /\ levents = <<>>
    /\ lreturned = <<>> /\ lcalls = 0

SpecUpload == InitUpload /\ [][NextUpload]_vars

SpecNorm == InitNorm /\ [][NextNorm]_vars

SpecRepeat == InitRepeat /\ [][NextRepeat]_vars

SpecPips == InitPips /\ [][NextPips]_vars

SpecPerf == InitPerf /\ [][NextPerf]_vars

SpecPlugin == InitPlugin /\ [][NextPlugin]_vars

SpecSession == InitSession /\ [][NextSession]_vars

SpecInsight == InitInsight /\ [][NextInsight]_vars

SpecGenerate == InitGenerate /\ [][NextGenerate]_vars

SpecML == InitML /\ [][NextML]_vars

SpecExtract == InitExtract /\ [][NextExtract]_vars

SpecEvent == InitEvent /\ [][NextEvent]_vars

SpecLoader == InitLoader /\ [][NextLoader]_vars

\* the ratio computations of the analysis engine, the summary and the risk plugin
InitRatios == InitPerf \/ InitPlugin

NextRatios == NextPerf \/ NextPlugin

SpecRatios == InitRatios /\ [][NextRatios]_vars

\* the invocations that share process-wide state: engine, ML pipeline and risk plugin
InitShared == InitML \/ InitPlugin

NextShared == NextML \/ NextPlugin

SpecShared == InitShared /\ [][NextShared]_vars

Init == InitUpload \/ InitNorm \/ InitRepeat \/ InitPips \/ InitPerf \/
    InitPlugin \/ InitSession \/ InitInsight \/ InitGenerate \/ InitML \/
    InitExtract \/ InitEvent \/ InitLoader

Next == NextUpload \/ NextNorm \/ NextRepeat \/ NextPips \/ NextPerf \/
    NextPlugin \/ NextSession \/ NextInsight \/ NextGenerate \/ NextML \/
    NextExtract \/ NextEvent \/ NextLoader

Spec == Init /\ [][Next]_vars

====
